---- MODULE Spec2Model ----
(***************************************************************************)
(* Model of the drone flight-plan geometry core: the Site (telescopes,     *)
(* origin, derived telescope ENU positions), the TrajectoryPlanner built   *)
(* on it, the two arc generators and the observation-geometry helpers,     *)
(* the DroneTrajectory they return, the boresight table of the batch       *)
(* summary and the mission exports (Litchi, Mission Planner,               *)
(* QGroundControl).                                                        *)
(*                                                                         *)
(* Specifications.  Spec is the life of a site: load, set_origin, planner  *)
(* construction, then one conversion or observation call.  ArcSpec is one  *)
(* call of an arc generator on an anchored site.  TrajSpec is a trajectory *)
(* built by the caller: compute_geodetic, the LAT/LON/ALT views, the       *)
(* boresight and the batch summary.  ExportSpec is the export of a         *)
(* generated trajectory.  ConvSpec is a conversion to ENU and back on a    *)
(* site loaded with its origin.                                            *)
(*                                                                         *)
(* Numbers.  Geodetic coordinates and metres are integers.  The ellipsoid  *)
(* conversions of pymap3d are modelled on a local chart in which one unit  *)
(* of longitude / latitude / altitude is one unit east / north / up; the   *)
(* library's argument checks (latitude within [-90, 90], slant range not   *)
(* negative) and the range of the longitudes it returns are kept.  Angles  *)
(* of arcs are exact rationals: an angle is an                             *)
(* integer count of 1/AngleScale degrees.  A position is an integer ENU    *)
(* triple plus an optional polar offset (az, el, r) that stands for        *)
(* aer2enu(az, el, r); the offset is kept in the normal form enu2aer       *)
(* returns, so equal representations are equal points.                     *)
(***************************************************************************)
EXTENDS Integers, Sequences, FiniteSets, TLC

VARIABLES pc, telescopes, origin, landing_site, planner, traj, files, call, err, warned, ret

vars == <<pc, telescopes, origin, landing_site, planner, traj, files, call, err, warned, ret>>

(***************************************************************************)
(* Bounds of the model.                                                    *)
(***************************************************************************)
MaxCoord == 1
MaxN == 4
MaxRepeat == 26
MaxMissionRepeat == 3

(***************************************************************************)
(* Optional values: None is the empty tuple, a present value v is <<v>>.   *)
(***************************************************************************)
None == <<>>
Some(v) == <<v>>
IsNone(o) == o = <<>>
The(o) == o[1]

Abs(x) == IF x < 0 THEN -x ELSE x
Sign(x) == IF x < 0 THEN -1 ELSE IF x > 0 THEN 1 ELSE 0

RECURSIVE Gcd(_, _)
Gcd(a, b) == IF b = 0 THEN a ELSE Gcd(b, a % b)

RECURSIVE LcmUpTo(_)
LcmUpTo(n) == IF n <= 1 THEN 1 ELSE (LcmUpTo(n - 1) * n) \div Gcd(LcmUpTo(n - 1), n)

(* Angles are counted in 1/AngleScale degrees, so that every np.linspace   *)
(* value of up to MaxN + 1 samples between half-integer degrees is exact.  *)
AngleScale == 2 * LcmUpTo(MaxN)
Deg(d) == d * AngleScale

(***************************************************************************)
(* Exceptions, by the class and text the code (or the library it calls)    *)
(* raises them with; OK is a call that returned.                           *)
(***************************************************************************)
OK == "ok"
ErrNoTelescopes == "ValueError: No telescopes defined in the site."
ErrOriginForEnu == "ValueError: Origin must be set before computing ENU coordinates."
ErrOriginToEnu == "ValueError: Origin must be set before converting to ENU."
ErrOriginToGeodetic == "ValueError: Origin must be set before converting to Geodetic."
ErrTrajOrigin == "ValueError: Site origin must be set to convert ENU -> geodetic."
ErrTrajSiteType == "TypeError: Site origin mist be eiter Site or Geodetic"
ErrGeodeticNotComputed == "ValueError: Geodetic coordinates not computed yet. Call compute_geodetic(site) first."
ErrTelNotFound == "ValueError: Telescope not found."
ErrTelEnuNotComputed == "ValueError: Telescope ENU positions are not computed. Call site.set_origin()."
ErrTelEnuNotDefined == "ValueError: Telescope ENU not defined. Call site.set_origin()."
ErrTelescopeType == "TypeError: Invalid type for telescope specification."
ErrGeoInputType == "TypeError: Input must be a Geodetic object or a NumPy array of shape (N,3)."
ErrGeoShape == "ValueError: NumPy input must have shape (N,3) as (lat, lon, alt)."
ErrEnuShape == "ValueError: NumPy input must have shape (N,3) as (e, n, u)."
ErrEnuInputType == "TypeError: Input must be an ENU object or a NumPy array of shape (N,3)."
ErrTupleIndex == "IndexError: tuple index out of range"
ErrTrajectoriesType == "TypeError: trajectories must be a DroneTrajectory, list, or dict"
ErrKey == "KeyError"
ErrLitchiLength == "RuntimeError: Litchi flightplans can't have more than 100 waypoints!"
ErrIndexZero == "IndexError: index 0 is out of bounds for axis 0 with size 0"
ErrNoneLat == "AttributeError: 'NoneType' object has no attribute 'lat'"
ErrNoneAlt == "AttributeError: 'NoneType' object has no attribute 'alt'"
ErrConcatenate == "ValueError: zero-dimensional arrays cannot be concatenated"
ErrNoneTolist == "AttributeError: 'NoneType' object has no attribute 'tolist'"
ErrListIndex == "IndexError: list index out of range"
ErrTargetType == "TypeError: target_enu must be a ENU, or ndarray"
ErrOperand == "TypeError: unsupported operand type(s) for -"
ErrNoneAttr == "AttributeError: 'NoneType' object has no attribute 'e'"
ErrLatitude == "ValueError: -pi/2 <= latitude <= pi/2"
ErrSlantRange == "ValueError: Slant range  [0, Infinity)"
ErrSamples == "ValueError: Number of samples must be non-negative."

(***************************************************************************)
(* Spatial entities.                                                       *)
(***************************************************************************)
NoOff == [az |-> 0, el |-> 0, r |-> 0]
Geodetic(lat, lon, alt) == [lat |-> lat, lon |-> lon, alt |-> alt, off |-> NoOff]
ENU(e, n, u) == [e |-> e, n |-> n, u |-> u, off |-> NoOff]
Telescope(name, geodetic, fph) ==
    [name |-> name, geodetic |-> geodetic, focalplane_height |-> fph, enu |-> None]

(***************************************************************************)
(* pymap3d: geodetic2ecef rejects a latitude outside [-90, 90]; every      *)
(* geodetic <-> ENU conversion goes through it for the point and/or the    *)
(* origin.                                                                 *)
(***************************************************************************)
ValidLat(lat) == lat >= -90 /\ lat <= 90

geodetic2ecef(lat, lon, alt) == [x |-> lon, y |-> lat, z |-> alt]

(* pm.ecef2geodetic: the longitude is atan2(y, x), so it comes back as the *)
(* angle of the same meridian within 180 degrees of Greenwich.             *)
WrapLon(lon) == 180 - ((180 - lon) % 360)
ecef2geodetic(x, y, z) == Geodetic(y, WrapLon(x), z)

(* pm.geodetic2enu(lat, lon, h, lat0, lon0, h0); defined when both         *)
(* latitudes are valid (Geodetic2EnuFails otherwise).                      *)
Geodetic2EnuFails(lat, lat0) == ~ValidLat(lat) \/ ~ValidLat(lat0)
geodetic2enu(lat, lon, h, o) ==
    LET p == geodetic2ecef(lat, lon, h)
        q == geodetic2ecef(o.lat, o.lon, o.alt)
    IN  ENU(p.x - q.x, p.y - q.y, p.z - q.z)

(* pm.enu2geodetic(e, n, u, lat0, lon0, h0); fails when the origin's       *)
(* latitude is invalid.  The polar offset of the point is carried along.   *)
enu2geodetic(p, o) ==
    LET q == geodetic2ecef(o.lat, o.lon, o.alt)
        g == ecef2geodetic(q.x + p.e, q.y + p.n, q.z + p.u)
    IN  [g EXCEPT !.off = p.off]

(***************************************************************************)
(* Polar offsets.  NormPolar is enu2aer(aer2enu(az, el, r)) for r >= 0:    *)
(* azimuth in [0, 360), elevation in [-90, 90]; an elevation past the      *)
(* zenith or nadir comes back on the other side with the azimuth turned    *)
(* by 180 degrees; a vertical or null vector has azimuth 0 (atan2(0, 0)).  *)
(***************************************************************************)
Mod360(a) == a % Deg(360)

NormPolar(p) ==
    LET w == Mod360(p.el + Deg(180)) - Deg(180)   \* elevation in [-180, 180)
    IN  IF p.r = 0 THEN NoOff
        ELSE IF w = Deg(90) \/ w = -Deg(90) THEN [az |-> 0, el |-> w, r |-> p.r]
        ELSE IF w > -Deg(90) /\ w < Deg(90) THEN [az |-> Mod360(p.az), el |-> w, r |-> p.r]
        ELSE IF w = -Deg(180) THEN [az |-> Mod360(p.az + Deg(180)), el |-> 0, r |-> p.r]
        ELSE [az |-> Mod360(p.az + Deg(180)), el |-> Sign(w) * Deg(180) - w, r |-> p.r]

(* The opposite vector of a polar offset in normal form. *)
NegPolar(p) ==
    IF p.r = 0 THEN NoOff
    ELSE IF p.el = Deg(90) \/ p.el = -Deg(90) THEN [az |-> 0, el |-> -p.el, r |-> p.r]
    ELSE [az |-> Mod360(p.az + Deg(180)), el |-> -p.el, r |-> p.r]

(* An offset along an axis with an integer range is an integer triple. *)
AxisAligned(p) ==
    p.r = 0 \/ p.el \in {Deg(90), -Deg(90)}
            \/ (p.el = 0 /\ p.az \in {0, Deg(90), Deg(180), Deg(270)})

PolarCart(p) ==
    IF p.r = 0 THEN <<0, 0, 0>>
    ELSE IF p.el = Deg(90) THEN <<0, 0, p.r>>
    ELSE IF p.el = -Deg(90) THEN <<0, 0, -p.r>>
    ELSE IF p.az = 0 THEN <<0, p.r, 0>>
    ELSE IF p.az = Deg(90) THEN <<p.r, 0, 0>>
    ELSE IF p.az = Deg(180) THEN <<0, -p.r, 0>>
    ELSE <<-p.r, 0, 0>>

(* pm.aer2enu(az, el, srange), srange >= 0, as a displacement. *)
aer2enu(az, el, srange) ==
    LET p == NormPolar([az |-> az, el |-> el, r |-> srange])
    IN  IF AxisAligned(p)
        THEN LET c == PolarCart(p) IN ENU(c[1], c[2], c[3])
        ELSE [e |-> 0, n |-> 0, u |-> 0, off |-> p]

(* ENU.__add__ / ENU.__sub__ and the array arithmetic on ENU rows. *)
EnuAdd(a, b) ==
    LET c == [e |-> a.e + b.e, n |-> a.n + b.n, u |-> a.u + b.u]
    IN  CASE b.off = NoOff -> [e |-> c.e, n |-> c.n, u |-> c.u, off |-> a.off]
          [] a.off = NoOff -> [e |-> c.e, n |-> c.n, u |-> c.u, off |-> b.off]
          [] a.off = NegPolar(b.off) -> [e |-> c.e, n |-> c.n, u |-> c.u, off |-> NoOff]
          [] OTHER -> [e |-> c.e, n |-> c.n, u |-> c.u, off |-> [sum |-> <<a.off, b.off>>]]

EnuNeg(a) == [e |-> -a.e, n |-> -a.n, u |-> -a.u, off |-> NegPolar(a.off)]
EnuSub(a, b) == EnuAdd(a, EnuNeg(b))

(***************************************************************************)
(* pm.enu2aer(e, n, u): azimuth clockwise from north, elevation, range.    *)
(* A vector along an axis or a pure polar offset has its angles in         *)
(* 1/AngleScale degrees.  Any other integer vector has them exactly as     *)
(* reduced ratios: azdir is the horizontal direction (e : n), eltan is     *)
(* (u|u| : e^2 + n^2), the signed square of the tangent of the elevation,  *)
(* and r2 the square of the range.  pymap3d first sets a component below  *)
(* one millimetre to zero; no vector of the model has such a component.    *)
(* A sum of an integer vector and a polar offset is left as it is.         *)
(***************************************************************************)
enu2aer(v) ==
    IF v.e = 0 /\ v.n = 0 /\ v.u = 0 THEN v.off
    ELSE IF v.off # NoOff THEN [of |-> v]
    ELSE IF v.e = 0 /\ v.n = 0
         THEN [az |-> 0, el |-> Sign(v.u) * Deg(90), r |-> Abs(v.u)]
    ELSE IF v.u = 0 /\ v.e = 0
         THEN [az |-> IF v.n > 0 THEN 0 ELSE Deg(180), el |-> 0, r |-> Abs(v.n)]
    ELSE IF v.u = 0 /\ v.n = 0
         THEN [az |-> IF v.e > 0 THEN Deg(90) ELSE Deg(270), el |-> 0, r |-> Abs(v.e)]
    ELSE LET g == Gcd(Abs(v.e), Abs(v.n))
             h2 == v.e * v.e + v.n * v.n
             k == Gcd(v.u * v.u, h2)
         IN  [azdir |-> <<v.e \div g, v.n \div g>>,
              eltan |-> <<(v.u * Abs(v.u)) \div k, h2 \div k>>,
              r2 |-> h2 + v.u * v.u]

(***************************************************************************)
(* Inputs: site configurations (the JSON the Site is loaded from) and the  *)
(* origins handed to set_origin.  Coordinates are even, so that the mean   *)
(* of two of them is exact; 92 is a latitude pymap3d rejects.              *)
(***************************************************************************)
TelNames == <<"SAT1", "SAT2">>
UnknownName == "LAT"
Coords == {2 * k : k \in 0..MaxCoord}
Lats == Coords \cup {92}
Heights == {0, 2}

TelEntries(i) ==
    {[name |-> TelNames[i], lat |-> la, lon |-> 0, alt |-> 0, focalplane_height |-> f] :
        la \in Lats, f \in Heights}

ConfigTelescopes ==
    {<<>>} \cup {<<a>> : a \in TelEntries(1) \cup TelEntries(2)}
           \cup {<<a, b>> : a \in TelEntries(1), b \in TelEntries(2)}

OriginArgs == {Geodetic(la, 0, 0) : la \in Lats}
LandingSites == {None, Some(Geodetic(0, 2, 0))}

Configs ==
    [telescopes : ConfigTelescopes,
     origin : {None} \cup {Some(g) : g \in OriginArgs},
     landing_site : LandingSites]

(***************************************************************************)
(* Site                                                                    *)
(***************************************************************************)
(* Site.__init__: telescopes in the order of the file, enu not computed. *)
SiteTelescopes(cfg) ==
    [i \in 1..Len(cfg.telescopes) |->
        LET t == cfg.telescopes[i]
        IN  Telescope(t.name, Geodetic(t.lat, t.lon, t.alt), t.focalplane_height)]

(* Site.compute_barycenter *)
BarycenterErr(tels) ==
    IF Len(tels) = 0 THEN ErrNoTelescopes
    ELSE IF \E i \in 1..Len(tels) : ~ValidLat(tels[i].geodetic.lat) THEN ErrLatitude
    ELSE OK

RECURSIVE SumSeq(_)
SumSeq(s) == IF Len(s) = 0 THEN 0 ELSE Head(s) + SumSeq(Tail(s))

(* compute_barycenter averaging the telescopes' geodetic positions without *)
(* the focal-plane heights.                                                *)
compute_barycenter_NoFocalHeight(tels) ==
    LET Ecef(t) == geodetic2ecef(t.geodetic.lat, t.geodetic.lon, t.geodetic.alt)
        k == Len(tels)
        xs == [i \in 1..k |-> Ecef(tels[i]).x]
        ys == [i \in 1..k |-> Ecef(tels[i]).y]
        zs == [i \in 1..k |-> Ecef(tels[i]).z]
    IN  ecef2geodetic(SumSeq(xs) \div k, SumSeq(ys) \div k, SumSeq(zs) \div k)

compute_barycenter(tels) ==
    LET Ecef(t) == geodetic2ecef(t.geodetic.lat, t.geodetic.lon,
                                 t.geodetic.alt + t.focalplane_height)
        k == Len(tels)
        xs == [i \in 1..k |-> Ecef(tels[i]).x]
        ys == [i \in 1..k |-> Ecef(tels[i]).y]
        zs == [i \in 1..k |-> Ecef(tels[i]).z]
    IN  ecef2geodetic(SumSeq(xs) \div k, SumSeq(ys) \div k, SumSeq(zs) \div k)

(* The ENU of one telescope in Site._update_all_enu. *)
TelescopeEnu(t, o) ==
    geodetic2enu(t.geodetic.lat, t.geodetic.lon, t.geodetic.alt + t.focalplane_height, o)

EnuFails(t, o) == Geodetic2EnuFails(t.geodetic.lat, o.lat)

(* Site._update_all_enu: the loop over the telescopes stops at the first   *)
(* one whose conversion raises; those before it keep their new enu.        *)
FirstFailing(tels, o) ==
    IF \E i \in 1..Len(tels) : EnuFails(tels[i], o)
    THEN CHOOSE i \in 1..Len(tels) :
            EnuFails(tels[i], o) /\ \A j \in 1..(i - 1) : ~EnuFails(tels[j], o)
    ELSE 0

(* _update_all_enu computing the enu only of a telescope that has none. *)
update_all_enu_KeepsExisting(tels, orig) ==
    IF IsNone(orig) THEN [telescopes |-> tels, err |-> ErrOriginForEnu]
    ELSE LET o == The(orig)
             bad == FirstFailing(tels, o)
         IN  [telescopes |->
                 [i \in 1..Len(tels) |->
                     IF (bad = 0 \/ i < bad) /\ IsNone(tels[i].enu)
                     THEN [tels[i] EXCEPT !.enu = Some(TelescopeEnu(tels[i], o))]
                     ELSE tels[i]],
              err |-> IF bad = 0 THEN OK ELSE ErrLatitude]

update_all_enu(tels, orig) ==
    IF IsNone(orig) THEN [telescopes |-> tels, err |-> ErrOriginForEnu]
    ELSE LET o == The(orig)
             bad == FirstFailing(tels, o)
         IN  [telescopes |->
                 [i \in 1..Len(tels) |->
                     IF bad = 0 \/ i < bad
                     THEN [tels[i] EXCEPT !.enu = Some(TelescopeEnu(tels[i], o))]
                     ELSE tels[i]],
              err |-> IF bad = 0 THEN OK ELSE ErrLatitude]

(* set_origin with the assignment of self.origin moved before the          *)
(* barycenter is computed: a failing implicit call clears the origin.      *)
set_origin_AssignsFirst(tels, orig, geodetic) ==
    IF IsNone(geodetic) /\ BarycenterErr(tels) # OK
    THEN [telescopes |-> tels, origin |-> None, err |-> BarycenterErr(tels), warned |-> TRUE]
    ELSE LET g == IF IsNone(geodetic) THEN Some(compute_barycenter(tels)) ELSE geodetic
             upd == update_all_enu(tels, g)
         IN  [telescopes |-> upd.telescopes, origin |-> g, err |-> upd.err,
              warned |-> IsNone(geodetic)]

(* Site.set_origin(geodetic): the site after the call, its outcome and     *)
(* whether the implicit-origin warning was emitted.                        *)
set_origin(tels, orig, geodetic) ==
    IF IsNone(geodetic) /\ BarycenterErr(tels) # OK
    THEN [telescopes |-> tels, origin |-> orig, err |-> BarycenterErr(tels), warned |-> TRUE]
    ELSE LET g == IF IsNone(geodetic) THEN Some(compute_barycenter(tels)) ELSE geodetic
             upd == update_all_enu(tels, g)
         IN  [telescopes |-> upd.telescopes, origin |-> g, err |-> upd.err,
              warned |-> IsNone(geodetic)]

(* Site.geodetic_to_enu(geo): geo is a Geodetic object, an (N, 3) array    *)
(* (rows read as lat, lon, alt) or anything else.  Returns err and value.  *)
RowEnuFails(row, o) == Geodetic2EnuFails(row[1], o.lat)
RowEnu(row, o) == geodetic2enu(row[1], row[2], row[3], o)

(* geodetic_to_enu testing the type of the input before the origin. *)
geodetic_to_enu_TypeFirst(orig, geo) ==
    IF geo.kind \notin {"Geodetic", "ndarray", "ndarray_flat", "ndarray_scalar"}
    THEN [err |-> ErrGeoInputType, val |-> None]
    ELSE IF IsNone(orig) THEN [err |-> ErrOriginToEnu, val |-> None]
    ELSE LET o == The(orig) IN
         CASE geo.kind = "Geodetic" ->
                IF Geodetic2EnuFails(geo.geodetic.lat, o.lat)
                THEN [err |-> ErrLatitude, val |-> None]
                ELSE [err |-> OK,
                      val |-> Some(geodetic2enu(geo.geodetic.lat, geo.geodetic.lon,
                                                geo.geodetic.alt, o))]
           [] geo.kind = "ndarray" ->
                IF \E i \in 1..Len(geo.rows) : RowEnuFails(geo.rows[i], o)
                THEN [err |-> ErrLatitude, val |-> None]
                ELSE [err |-> OK,
                      val |-> Some([i \in 1..Len(geo.rows) |-> RowEnu(geo.rows[i], o)])]
           [] OTHER -> [err |-> ErrGeoShape, val |-> None]

geodetic_to_enu(orig, geo) ==
    IF IsNone(orig) THEN [err |-> ErrOriginToEnu, val |-> None]
    ELSE LET o == The(orig) IN
         CASE geo.kind = "Geodetic" ->
                IF Geodetic2EnuFails(geo.geodetic.lat, o.lat)
                THEN [err |-> ErrLatitude, val |-> None]
                ELSE [err |-> OK,
                      val |-> Some(geodetic2enu(geo.geodetic.lat, geo.geodetic.lon,
                                                geo.geodetic.alt, o))]
           [] geo.kind = "ndarray" ->
                IF \E i \in 1..Len(geo.rows) : RowEnuFails(geo.rows[i], o)
                THEN [err |-> ErrLatitude, val |-> None]
                ELSE [err |-> OK,
                      val |-> Some([i \in 1..Len(geo.rows) |-> RowEnu(geo.rows[i], o)])]
           [] geo.kind \in {"ndarray_flat", "ndarray_scalar"} ->
                [err |-> ErrGeoShape, val |-> None]
           [] OTHER -> [err |-> ErrGeoInputType, val |-> None]

(* enu_to_geodetic stacking the columns of the batch form as (lon, lat,    *)
(* alt).                                                                   *)
enu_to_geodetic_BatchColumnsSwapped(orig, enu) ==
    IF IsNone(orig) THEN [err |-> ErrOriginToGeodetic, val |-> None]
    ELSE LET o == The(orig) IN
         CASE enu.kind = "ENU" ->
                IF ~ValidLat(o.lat) THEN [err |-> ErrLatitude, val |-> None]
                ELSE [err |-> OK, val |-> Some(enu2geodetic(enu.enu, o))]
           [] enu.kind = "ndarray" ->
                IF ~ValidLat(o.lat) THEN [err |-> ErrLatitude, val |-> None]
                ELSE [err |-> OK,
                      val |-> Some([i \in 1..Len(enu.rows) |->
                                      LET g == enu2geodetic(ENU(enu.rows[i][1], enu.rows[i][2],
                                                                enu.rows[i][3]), o)
                                      IN  [g EXCEPT !.lat = g.lon, !.lon = g.lat]])]
           [] enu.kind = "ndarray_flat" -> [err |-> ErrEnuShape, val |-> None]
           [] enu.kind = "ndarray_scalar" -> [err |-> ErrTupleIndex, val |-> None]
           [] OTHER -> [err |-> ErrEnuInputType, val |-> None]

(* Site.enu_to_geodetic(enu): enu is an ENU object, an (N, 3) array, an    *)
(* array of shape (3,) ("ndarray_flat"), a 0-d array ("ndarray_scalar",    *)
(* whose shape[0] the second shape test reads) or anything else.           *)
enu_to_geodetic(orig, enu) ==
    IF IsNone(orig) THEN [err |-> ErrOriginToGeodetic, val |-> None]
    ELSE LET o == The(orig) IN
         CASE enu.kind = "ENU" ->
                IF ~ValidLat(o.lat) THEN [err |-> ErrLatitude, val |-> None]
                ELSE [err |-> OK, val |-> Some(enu2geodetic(enu.enu, o))]
           [] enu.kind = "ndarray" ->
                IF ~ValidLat(o.lat) THEN [err |-> ErrLatitude, val |-> None]
                ELSE [err |-> OK,
                      val |-> Some([i \in 1..Len(enu.rows) |->
                                      enu2geodetic(ENU(enu.rows[i][1], enu.rows[i][2],
                                                       enu.rows[i][3]), o)])]
           [] enu.kind = "ndarray_flat" -> [err |-> ErrEnuShape, val |-> None]
           [] enu.kind = "ndarray_scalar" -> [err |-> ErrTupleIndex, val |-> None]
           [] OTHER -> [err |-> ErrEnuInputType, val |-> None]

(* self.telescopes: the dict of the telescopes by name. *)
HasTelescope(tels, name) == \E i \in 1..Len(tels) : tels[i].name = name
TelescopeNamed(tels, name) == tels[CHOOSE i \in 1..Len(tels) : tels[i].name = name]

(* Site.observe_points: the telescope reference is resolved first. *)
ResolveTelescope(tels, orig, telescope) ==
    CASE telescope.kind = "str" ->
            IF \A i \in 1..Len(tels) : tels[i].name # telescope.name
            THEN [err |-> ErrTelNotFound, val |-> None]
            ELSE LET t == tels[CHOOSE i \in 1..Len(tels) : tels[i].name = telescope.name]
                 IN  IF IsNone(t.enu)
                     THEN [err |-> ErrTelEnuNotComputed, val |-> None]
                     ELSE [err |-> OK, val |-> t.enu]
      [] telescope.kind = "Telescope" ->
            IF IsNone(telescope.tel.enu)
            THEN [err |-> ErrTelEnuNotDefined, val |-> None]
            ELSE [err |-> OK, val |-> telescope.tel.enu]
      [] telescope.kind = "ENU" -> [err |-> OK, val |-> Some(telescope.enu)]
      [] telescope.kind = "Geodetic" -> geodetic_to_enu(orig, telescope)
      [] OTHER -> [err |-> ErrTelescopeType, val |-> None]

(* observe_points converting the points before it resolves the telescope. *)
observe_points_PointsFirst(tels, orig, points, telescope) ==
    LET tel == ResolveTelescope(tels, orig, telescope)
        pts == geodetic_to_enu(orig, points)
    IN  IF pts.err # OK THEN [err |-> pts.err, val |-> None]
        ELSE IF tel.err # OK THEN [err |-> tel.err, val |-> None]
        ELSE IF points.kind # "ndarray" THEN [err |-> ErrOperand, val |-> None]
        ELSE [err |-> OK,
              val |-> Some([i \in 1..Len(The(pts.val)) |->
                               enu2aer(EnuSub(The(pts.val)[i], The(tel.val)))])]

observe_points(tels, orig, points, telescope) ==
    LET tel == ResolveTelescope(tels, orig, telescope)
        pts == geodetic_to_enu(orig, points)
    IN  IF tel.err # OK THEN [err |-> tel.err, val |-> None]
        ELSE IF pts.err # OK THEN [err |-> pts.err, val |-> None]
        ELSE IF points.kind # "ndarray" THEN [err |-> ErrOperand, val |-> None]
        ELSE [err |-> OK,
              val |-> Some([i \in 1..Len(The(pts.val)) |->
                               enu2aer(EnuSub(The(pts.val)[i], The(tel.val)))])]

(***************************************************************************)
(* TrajectoryPlanner: observation geometry.                                *)
(***************************************************************************)
(* telescope_to_target_aer(telescope, target_enu): the type of the target  *)
(* is tested first, then telescope.enu is dereferenced.  The telescope is  *)
(* a Telescope object from site.telescopes.                                *)
telescope_to_target_aer(telescope, target) ==
    CASE target.kind = "ENU" ->
            IF IsNone(telescope.enu) THEN [err |-> ErrNoneAttr, val |-> None]
            ELSE [err |-> OK, val |-> Some(enu2aer(EnuSub(target.enu, The(telescope.enu))))]
      [] target.kind = "ndarray" ->
            IF IsNone(telescope.enu) THEN [err |-> ErrNoneAttr, val |-> None]
            ELSE [err |-> OK,
                  val |-> Some([i \in 1..Len(target.rows) |->
                                  enu2aer(EnuSub(ENU(target.rows[i][1], target.rows[i][2],
                                                     target.rows[i][3]),
                                                 The(telescope.enu)))])]
      [] OTHER -> [err |-> ErrTargetType, val |-> None]

(***************************************************************************)
(* DroneTrajectory and the arc generators.                                 *)
(***************************************************************************)
DroneTrajectory(enu, yaw, pitch, npoints, arccenter, poi, curveradius) ==
    [enu |-> enu, yaw |-> yaw, pitch |-> pitch, npoints |-> npoints,
     arccenter |-> arccenter, geodetic |-> None, poi |-> poi,
     landing_site |-> None, curveradius |-> curveradius, plot_boresight |-> FALSE]

(* DroneTrajectory.compute_geodetic(site): the rows of the geodetic array. *)
compute_geodetic(enu, o) == [i \in 1..Len(enu) |-> enu2geodetic(enu[i], o)]

(* compute_geodetic taking the geodetic origin (0, 0, 0) when the site has *)
(* no origin.                                                              *)
DroneTrajectory_compute_geodetic_DefaultOrigin(t, orig, site) ==
    LET o == IF site.kind = "Site" THEN (IF IsNone(orig) THEN Some(Geodetic(0, 0, 0)) ELSE orig)
                                   ELSE Some(site.geodetic)
    IN  IF site.kind \notin {"Site", "Geodetic"} THEN [traj |-> t, err |-> ErrTrajSiteType]
        ELSE IF ~ValidLat(The(o).lat) THEN [traj |-> t, err |-> ErrLatitude]
        ELSE [traj |-> [t EXCEPT !.geodetic = Some(compute_geodetic(t.enu, The(o)))],
              err |-> OK]

(* DroneTrajectory.compute_geodetic(site): site is the Site (whose origin  *)
(* is orig), a Geodetic origin or a value of another type.  The trajectory *)
(* after the call and the outcome.                                         *)
DroneTrajectory_compute_geodetic(t, orig, site) ==
    LET o == IF site.kind = "Site" THEN orig ELSE Some(site.geodetic)
    IN  IF site.kind = "Site" /\ IsNone(orig) THEN [traj |-> t, err |-> ErrTrajOrigin]
        ELSE IF site.kind \notin {"Site", "Geodetic"} THEN [traj |-> t, err |-> ErrTrajSiteType]
        ELSE IF ~ValidLat(The(o).lat) THEN [traj |-> t, err |-> ErrLatitude]
        ELSE [traj |-> [t EXCEPT !.geodetic = Some(compute_geodetic(t.enu, The(o)))],
              err |-> OK]

(* DroneTrajectory.LAT / LON / ALT: a column of the geodetic array. *)
DroneTrajectory_view(t, name) ==
    IF IsNone(t.geodetic) THEN [err |-> ErrGeodeticNotComputed, val |-> None]
    ELSE LET g == The(t.geodetic)
         IN  [err |-> OK,
              val |-> Some([i \in 1..Len(g) |->
                              CASE name = "LAT" -> g[i].lat
                                [] name = "LON" -> g[i].lon
                                [] OTHER -> g[i].alt])]

(* drone_traj.enu.mean(axis=0) of a non-empty array of integer rows (the   *)
(* rows of the model have means that are integers).                        *)
MeanEnu(rows) ==
    LET k == Len(rows)
    IN  ENU(SumSeq([i \in 1..k |-> rows[i].e]) \div k,
            SumSeq([i \in 1..k |-> rows[i].n]) \div k,
            SumSeq([i \in 1..k |-> rows[i].u]) \div k)

(* The AER of a vector of NaN components: the mean of an empty array. *)
NaNAer == [nan |-> TRUE]

(* compute_boresight taking an arccenter at ENU(0, 0, 0) for a missing one. *)
compute_boresight_ZeroIsAbsent(telescope, t) ==
    IF ~IsNone(t.arccenter) /\ The(t.arccenter) # ENU(0, 0, 0)
    THEN telescope_to_target_aer(telescope, [kind |-> "ENU", enu |-> The(t.arccenter)])
    ELSE IF Len(t.enu) = 0
         THEN IF IsNone(telescope.enu) THEN [err |-> ErrNoneAttr, val |-> None]
              ELSE [err |-> OK, val |-> Some(NaNAer)]
    ELSE telescope_to_target_aer(telescope, [kind |-> "ENU", enu |-> MeanEnu(t.enu)])

(* TrajectoryPlanner.compute_boresight(telescope, drone_traj): an ENU      *)
(* object is always true in `if drone_traj.arccenter:`, None is false.     *)
compute_boresight(telescope, t) ==
    IF ~IsNone(t.arccenter)
    THEN telescope_to_target_aer(telescope, [kind |-> "ENU", enu |-> The(t.arccenter)])
    ELSE IF Len(t.enu) = 0
         THEN IF IsNone(telescope.enu) THEN [err |-> ErrNoneAttr, val |-> None]
              ELSE [err |-> OK, val |-> Some(NaNAer)]
    ELSE telescope_to_target_aer(telescope, [kind |-> "ENU", enu |-> MeanEnu(t.enu)])

(***************************************************************************)
(* TrajectoryPlanner.plot_trajectories: the boresight table.               *)
(***************************************************************************)
(* f"{x:.2f}" of an angle: the number of hundredths of a degree, rounded   *)
(* half to even (the angles of the model are exact binary fractions where  *)
(* they are ties).                                                         *)
Format2(a) ==
    LET num == 100 * a
        q == num \div AngleScale
        r == num % AngleScale
    IN  IF 2 * r > AngleScale \/ (2 * r = AngleScale /\ q % 2 = 1) THEN q + 1 ELSE q

(* The azimuth and elevation cells of a row: the text "nan", a number of   *)
(* hundredths, or, for an angle that is not a rational number of degrees,  *)
(* the formatting of the angle of its ratio.                               *)
AzCell(aer) ==
    IF DOMAIN aer = {"nan"} THEN [text |-> "nan"]
    ELSE IF DOMAIN aer = {"az", "el", "r"} THEN [hundredths |-> Format2(aer.az)]
    ELSE [format2_of |-> aer.azdir]

ElCell(aer) ==
    IF DOMAIN aer = {"nan"} THEN [text |-> "nan"]
    ELSE IF DOMAIN aer = {"az", "el", "r"} THEN [hundredths |-> Format2(aer.el)]
    ELSE [format2_of |-> aer.eltan]

(* The names f"trajectory_{i}" given to the items of a list. *)
AutoNames == <<"trajectory_0", "trajectory_1">>

(* traj_dict: the (name, trajectory) items in the order of the dict. *)
TrajDict(trajectories) ==
    CASE trajectories.kind = "DroneTrajectory" ->
            <<[name |-> AutoNames[1], traj |-> trajectories.traj]>>
      [] trajectories.kind = "list" ->
            [i \in 1..Len(trajectories.items) |->
                [name |-> AutoNames[i], traj |-> trajectories.items[i]]]
      [] OTHER -> trajectories.items

(* The telescope names of the call: all of the site when none are given. *)
PlotTelescopes(tels, tel_names) ==
    IF IsNone(tel_names) THEN [i \in 1..Len(tels) |-> tels[i].name] ELSE The(tel_names)

(* The (trajectory, telescope) pairs in the order of the two loops. *)
PlotPairs(traj_dict, names) ==
    [p \in 1..(Len(traj_dict) * Len(names)) |->
        <<((p - 1) \div Len(names)) + 1, ((p - 1) % Len(names)) + 1>>]

BoresightRow(tels, item, name) ==
    LET b == The(compute_boresight(TelescopeNamed(tels, name), item.traj).val)
    IN  [telescope |-> name, trajectory |-> item.name, az |-> AzCell(b), el |-> ElCell(b)]

(* The loops appending a row for every pair, whatever plot_boresight is. *)
BoresightRows_AllPairs(tels, traj_dict, names) ==
    LET pairs == PlotPairs(traj_dict, names)
    IN  [k \in 1..Len(pairs) |-> BoresightRow(tels, traj_dict[pairs[k][1]], names[pairs[k][2]])]

(* azel_summary after the loops: a row is appended for a pair only if the  *)
(* trajectory's plot_boresight is set.                                     *)
BoresightRows(tels, traj_dict, names) ==
    LET pairs == SelectSeq(PlotPairs(traj_dict, names),
                           LAMBDA q : traj_dict[q[1]].traj.plot_boresight)
    IN  [k \in 1..Len(pairs) |-> BoresightRow(tels, traj_dict[pairs[k][1]], names[pairs[k][2]])]

(* sorted(azel_summary, key=lambda row: row[0]): stable, by telescope name *)
(* in the order of the strings.                                            *)
NameOrder == <<"LAT", "SAT1", "SAT2">>

SortByTelescope(rows) ==
    SelectSeq(rows, LAMBDA r : r.telescope = NameOrder[1])
    \o SelectSeq(rows, LAMBDA r : r.telescope = NameOrder[2])
    \o SelectSeq(rows, LAMBDA r : r.telescope = NameOrder[3])

(* The first failure of the loops: self.site.telescopes[name] of an        *)
(* unknown name, or telescope_to_target_aer on a telescope without enu.    *)
PlotLoopErr(tels, traj_dict, names) ==
    LET Fails(n) == ~HasTelescope(tels, n) \/ IsNone(TelescopeNamed(tels, n).enu)
    IN  IF Len(traj_dict) = 0 \/ \A i \in 1..Len(names) : ~Fails(names[i]) THEN OK
        ELSE LET i == CHOOSE i \in 1..Len(names) :
                         Fails(names[i]) /\ \A j \in 1..(i - 1) : ~Fails(names[j])
             IN  IF ~HasTelescope(tels, names[i]) THEN ErrKey ELSE ErrNoneAttr

(* plot_trajectories(trajectories, telescopes, boresight_table), with the  *)
(* telescopes argument as tel_names: the table drawn, if any, and whether  *)
(* the over-20-entries warning was emitted.                                *)
plot_trajectories(tels, trajectories, tel_names, boresight_table) ==
    IF trajectories.kind \notin {"DroneTrajectory", "list", "dict"}
    THEN [err |-> ErrTrajectoriesType, val |-> None, warned |-> FALSE]
    ELSE LET traj_dict == TrajDict(trajectories)
             names == PlotTelescopes(tels, tel_names)
             w == boresight_table /\ Len(traj_dict) * Len(names) > 20
             azel_summary == BoresightRows(tels, traj_dict, names)
         IN  IF PlotLoopErr(tels, traj_dict, names) # OK
             THEN [err |-> PlotLoopErr(tels, traj_dict, names), val |-> None, warned |-> w]
             ELSE [err |-> OK,
                   val |-> IF boresight_table /\ Len(azel_summary) > 0
                           THEN Some(SortByTelescope(azel_summary)) ELSE None,
                   warned |-> w]

(* Site.enu_to_geodetic(enu) for an ENU object. *)
EnuToGeodeticErr(orig) ==
    IF IsNone(orig) THEN ErrOriginToGeodetic
    ELSE IF ~ValidLat(The(orig).lat) THEN ErrLatitude
    ELSE OK

(* np.linspace with endpoint=False: num samples, the stop left out. *)
linspace_NoEndpoint(start, stop, num) ==
    [i \in 1..num |-> start + ((i - 1) * (stop - start)) \div num]

(* np.linspace(start, stop, num), num >= 0: num evenly spaced samples, the *)
(* stop included; a single sample is the start.                            *)
linspace(start, stop, num) ==
    IF num = 1 THEN <<start>>
    ELSE [i \in 1..num |-> start + ((i - 1) * (stop - start)) \div (num - 1)]

(* The rows of enu_points with the loop over the samples starting one late. *)
ArcEnu_SkipsFirst(poi, az, el_vals, srange, num) ==
    [i \in 1..(num - 1) |-> EnuAdd(aer2enu(az, el_vals[i + 1], srange), poi)]

(* enu_points: num rows, row i at aer2enu(az, el_vals[i], srange) from the *)
(* POI.                                                                    *)
ArcEnu(poi, az, el_vals, srange, num) ==
    [i \in 1..num |-> EnuAdd(aer2enu(az, el_vals[i], srange), poi)]

(* FacePoi with the difference reversed: the AER of the point seen from    *)
(* the POI.                                                                *)
FacePoi_Reversed(enu_points, poi) ==
    [i \in 1..Len(enu_points) |-> enu2aer(EnuSub(enu_points[i], poi))]

(* Yaw and pitch of every point: the AER of the POI seen from the point. *)
FacePoi(enu_points, poi) ==
    [i \in 1..Len(enu_points) |-> enu2aer(EnuSub(poi, enu_points[i]))]

(* What both generators do once the sweep is fixed: the points, the        *)
(* orientation, the trajectory record, its geodetic rows and landing site. *)
FinishArc(orig, landing, poi, az, el_vals, srange, num, arccenter) ==
    LET enu_points == ArcEnu(poi, az, el_vals, srange, num)
        facing == FacePoi(enu_points, poi)
        t == DroneTrajectory(enu_points,
                             [i \in 1..Len(facing) |-> facing[i].az],
                             [i \in 1..Len(facing) |-> facing[i].el],
                             num, arccenter,
                             Some(enu2geodetic(poi, The(orig))), Some(srange))
    IN  IF EnuToGeodeticErr(orig) # OK THEN [err |-> EnuToGeodeticErr(orig), val |-> None]
        ELSE [err |-> OK,
              val |-> Some([t EXCEPT !.geodetic = Some(compute_geodetic(enu_points, The(orig))),
                                     !.landing_site = landing])]

(* TrajectoryPlanner.old_arc_trajectory_202404 *)
old_arc_trajectory_202404(orig, landing, poi_enu, slant_range, az_center, el_center, el_range, num_steps_el) ==
    IF num_steps_el < 0 THEN [err |-> ErrSamples, val |-> None]
    ELSE IF slant_range < 0 THEN [err |-> ErrSlantRange, val |-> None]
    ELSE FinishArc(orig, landing, poi_enu, az_center,
                   linspace(el_center - el_range \div 2, el_center + el_range \div 2,
                            num_steps_el),
                   slant_range, num_steps_el, None)

(* The arc center of the nominal-pointing arc and its AER from the POI. *)
ArcCenter(nominal_poi, nominal_az, nominal_el, nominal_srange) ==
    EnuAdd(aer2enu(nominal_az, nominal_el, nominal_srange), nominal_poi)

(* The AER of the arc center taken from the site origin instead of from    *)
(* the POI.                                                                *)
CenterAer_FromOrigin(nominal_poi, nominal_az, nominal_el, nominal_srange, poi) ==
    enu2aer(ArcCenter(nominal_poi, nominal_az, nominal_el, nominal_srange))

CenterAer(nominal_poi, nominal_az, nominal_el, nominal_srange, poi) ==
    enu2aer(EnuSub(ArcCenter(nominal_poi, nominal_az, nominal_el, nominal_srange), poi))

(* new_arc_trajectory_202412 sweeping at the nominal slant range instead of *)
(* the range re-derived from the actual POI.                               *)
new_arc_trajectory_202412_NominalRange(orig, landing, nominal_poi, nominal_az, nominal_el, nominal_srange, poi, delta_el, num_steps_el) ==
    IF nominal_srange < 0 THEN [err |-> ErrSlantRange, val |-> None]
    ELSE IF num_steps_el < 0 THEN [err |-> ErrSamples, val |-> None]
    ELSE LET c == CenterAer(nominal_poi, nominal_az, nominal_el, nominal_srange, poi)
         IN  FinishArc(orig, landing, poi, c.az,
                       linspace(c.el - delta_el \div 2, c.el + delta_el \div 2, num_steps_el),
                       nominal_srange, num_steps_el,
                       Some(ArcCenter(nominal_poi, nominal_az, nominal_el, nominal_srange)))

(* TrajectoryPlanner.new_arc_trajectory_202412 *)
new_arc_trajectory_202412(orig, landing, nominal_poi, nominal_az, nominal_el, nominal_srange, poi, delta_el, num_steps_el) ==
    IF nominal_srange < 0 THEN [err |-> ErrSlantRange, val |-> None]
    ELSE IF num_steps_el < 0 THEN [err |-> ErrSamples, val |-> None]
    ELSE LET c == CenterAer(nominal_poi, nominal_az, nominal_el, nominal_srange, poi)
         IN  FinishArc(orig, landing, poi, c.az,
                       linspace(c.el - delta_el \div 2, c.el + delta_el \div 2, num_steps_el),
                       c.r, num_steps_el,
                       Some(ArcCenter(nominal_poi, nominal_az, nominal_el, nominal_srange)))

(***************************************************************************)
(* Mission export: the Litchi waypoint table.                              *)
(***************************************************************************)
(* coords/site_geofence.json, "safety_waypoints": (lat, lon, alt) triples  *)
(* by direction.                                                           *)
SafetyWaypoints ==
    [south |-> << <<0, 2, 10>>, <<0, 4, 10>> >>, north |-> << <<2, 0, 10>> >>]

(* litchi_safety_points: the heading by direction, in degrees. *)
SafetyHeading(direction) ==
    CASE direction = "south" -> Deg(0)
      [] direction = "north" -> Deg(180)
      [] direction = "east" -> Deg(270)
      [] direction = "west" -> Deg(90)
      [] OTHER -> None

(* litchi_waypoint: a row of the table.  position holds the columns        *)
(* latitude, longitude and altitude(m), poi the three POI columns.         *)
litchi_waypoint(position, heading, curvesize, gimbalpitchangle, speed, poi) ==
    [position |-> position, heading |-> heading, curvesize |-> curvesize,
     rotationdir |-> 0, gimbalmode |-> 1, gimbalpitchangle |-> gimbalpitchangle,
     actiontype1 |-> -1, actionparam1 |-> 0, altitudemode |-> 0, speed |-> speed,
     poi |-> poi, poi_altitudemode |-> 0]

litchi_safety_points(direction, speed, curvesize, gimbalpitchangle, poi) ==
    LET pts == SafetyWaypoints[direction]
    IN  [i \in 1..Len(pts) |->
            litchi_waypoint(Geodetic(pts[i][1], pts[i][2], pts[i][3]),
                            SafetyHeading(direction), curvesize, gimbalpitchangle, speed, poi)]

RECURSIVE Reverse(_)
Reverse(s) == IF Len(s) = 0 THEN <<>> ELSE Append(Reverse(Tail(s)), Head(s))

(* The way back including both ends: drone_traj += drone_traj[::-1] *)
Mirrored_EndsTwice(rows) == rows \o Reverse(rows)

(* drone_traj += drone_traj[1:-1][::-1] *)
Mirrored(rows) ==
    IF Len(rows) <= 2 THEN rows ELSE rows \o Reverse(SubSeq(rows, 2, Len(rows) - 1))

(* drone_traj *= n_repeat: empty for n_repeat <= 0. *)
RECURSIVE Repeated(_, _)
Repeated(rows, n) == IF n <= 0 THEN <<>> ELSE rows \o Repeated(rows, n - 1)

(* The height above the landing site. *)
AboveLanding(g, landing) == [g EXCEPT !.alt = g.alt - landing.alt]

(* The waypoints of export_mission_litchi: safety points, then the arc     *)
(* there and back, n_repeat times.                                         *)
LitchiWaypoints(t, move_speed, scan_speed, n_repeat, safety_waypoints) ==
    LET landing == The(t.landing_site)
        poi == AboveLanding(The(t.poi), landing)
        safety == IF IsNone(safety_waypoints) THEN <<>>
                  ELSE litchi_safety_points(The(safety_waypoints), move_speed,
                                            The(t.curveradius), t.pitch[1], poi)
        rows == [i \in 1..Len(The(t.geodetic)) |->
                    [geodetic |-> The(t.geodetic)[i], yaw |-> t.yaw[i], pitch |-> t.pitch[i]]]
        drone_traj == Repeated(Mirrored(rows), n_repeat)
    IN  safety \o [i \in 1..Len(drone_traj) |->
                      litchi_waypoint(AboveLanding(drone_traj[i].geodetic, landing),
                                      drone_traj[i].yaw, The(t.curveradius),
                                      drone_traj[i].pitch, scan_speed, poi)]

(* The number of rows of drone_traj. *)
ArcItems(t, n_repeat) ==
    IF IsNone(t.geodetic) THEN 0
    ELSE Len(Repeated(Mirrored(The(t.geodetic)), n_repeat))

(* The exception raised before the length of the plan is tested, if any. *)
LitchiBuildErr(t, n_repeat, safety_waypoints) ==
    IF ~IsNone(safety_waypoints) /\ Len(t.pitch) = 0 THEN ErrIndexZero
    ELSE IF ~IsNone(safety_waypoints) /\ IsNone(t.poi) THEN ErrNoneLat
    ELSE IF ~IsNone(safety_waypoints) /\ IsNone(t.landing_site) THEN ErrNoneAlt
    ELSE IF ~IsNone(safety_waypoints) /\ The(safety_waypoints) \notin DOMAIN SafetyWaypoints
         THEN ErrKey
    ELSE IF IsNone(t.geodetic) THEN ErrConcatenate
    ELSE IF ArcItems(t, n_repeat) > 0 /\ IsNone(t.landing_site) THEN ErrNoneAlt
    ELSE IF ArcItems(t, n_repeat) > 0 /\ IsNone(t.poi) THEN ErrNoneLat
    ELSE OK

(* export_mission_litchi with the length test letting a plan of exactly    *)
(* 100 waypoints through.                                                  *)
export_mission_litchi_MoreThanHundred(t, move_speed, scan_speed, n_repeat, savepath, safety_waypoints) ==
    IF LitchiBuildErr(t, n_repeat, safety_waypoints) # OK
    THEN [err |-> LitchiBuildErr(t, n_repeat, safety_waypoints), val |-> None, written |-> <<>>]
    ELSE LET waypoints == LitchiWaypoints(t, move_speed, scan_speed, n_repeat, safety_waypoints)
         IN  IF Len(waypoints) > 100
             THEN [err |-> ErrLitchiLength, val |-> None, written |-> <<>>]
             ELSE [err |-> OK, val |-> Some(waypoints),
                   written |-> IF IsNone(savepath) THEN <<>>
                               ELSE <<[path |-> The(savepath), rows |-> waypoints]>>]

(* export_mission_litchi: the table returned and the file written, if any. *)
export_mission_litchi(t, move_speed, scan_speed, n_repeat, savepath, safety_waypoints) ==
    IF LitchiBuildErr(t, n_repeat, safety_waypoints) # OK
    THEN [err |-> LitchiBuildErr(t, n_repeat, safety_waypoints), val |-> None, written |-> <<>>]
    ELSE LET waypoints == LitchiWaypoints(t, move_speed, scan_speed, n_repeat, safety_waypoints)
         IN  IF Len(waypoints) >= 100
             THEN [err |-> ErrLitchiLength, val |-> None, written |-> <<>>]
             ELSE [err |-> OK, val |-> Some(waypoints),
                   written |-> IF IsNone(savepath) THEN <<>>
                               ELSE <<[path |-> The(savepath), rows |-> waypoints]>>]

(***************************************************************************)
(* Mission export: the Mission Planner waypoint file (utils/mp_utils.py).  *)
(* The file is a sequence of lines: the header, then one item per line.    *)
(* An item is the record of its tab-separated columns; position stands for *)
(* the columns x, y, z (latitude, longitude, altitude).                    *)
(***************************************************************************)
MAVLINK_COMMANDS ==
    [waypoint |-> [cmd |-> 16, altmode |-> Some(1), frame |-> 3],
     roi |-> [cmd |-> 195, altmode |-> Some(1), frame |-> 3],
     rth |-> [cmd |-> 20, altmode |-> Some(3), frame |-> 2],
     speed |-> [cmd |-> 178, altmode |-> None, frame |-> 2],
     delay |-> [cmd |-> 19, altmode |-> None, frame |-> 2]]

mp_header == [text |-> "QGC WPL 110"]

mp_make_item(seq, current, frame, command, param1, param2, param3, param4, position, autocontinue) ==
    [seq |-> seq, current |-> current, frame |-> frame, command |-> command,
     param1 |-> param1, param2 |-> param2, param3 |-> param3, param4 |-> param4,
     position |-> position, autocontinue |-> autocontinue]

(* `if not frame`: true of None and of 0. *)
Falsy(frame) == IsNone(frame) \/ The(frame) = 0

(* mp.waypoint(seq, lat, lon, alt, current, autocontinue, frame) *)
mp_waypoint(seq, position, current, autocontinue, frame) ==
    LET cmd_info == MAVLINK_COMMANDS.waypoint
    IN  mp_make_item(seq, current, IF Falsy(frame) THEN cmd_info.frame ELSE The(frame),
                     cmd_info.cmd, 0, 0, 0, 0, position, autocontinue)

mp_rth(seq) ==
    LET cmd_info == MAVLINK_COMMANDS.rth
    IN  mp_make_item(seq, 0, cmd_info.frame, cmd_info.cmd, 0, 0, 0, 0, Geodetic(0, 0, 0), 1)

mp_speed(seq, speed_value) ==
    LET cmd_info == MAVLINK_COMMANDS.speed
    IN  mp_make_item(seq, 0, cmd_info.frame, cmd_info.cmd, 0, speed_value, 0, 0,
                     Geodetic(0, 0, 0), 1)

mp_roi(seq, position) ==
    LET cmd_info == MAVLINK_COMMANDS.roi
    IN  mp_make_item(seq, 0, cmd_info.frame, cmd_info.cmd, 0, 0, 0, 0, position, 1)

(* An item added to the text without the counter being advanced. *)
MpEmit_SeqKept(acc, item) == [waypoints |-> Append(acc.waypoints, item), seq |-> acc.seq]

(* `waypoints += item; seq += 1` *)
MpEmit(acc, item) == [waypoints |-> Append(acc.waypoints, item), seq |-> acc.seq + 1]

(* The loops of export_mission_mp over the safety points (triples) and     *)
(* over the points of the arc after the first.                             *)
RECURSIVE MpSafetyLoop(_, _)
MpSafetyLoop(acc, safety_points) ==
    IF Len(safety_points) = 0 THEN acc
    ELSE LET safety_point == Head(safety_points)
         IN  MpSafetyLoop(MpEmit(acc, mp_waypoint(acc.seq,
                                                  Geodetic(safety_point[1], safety_point[2],
                                                           safety_point[3]),
                                                  0, 1, None)),
                          Tail(safety_points))

RECURSIVE MpArcLoop(_, _, _)
MpArcLoop(acc, points, landing) ==
    IF Len(points) = 0 THEN acc
    ELSE MpArcLoop(MpEmit(acc, mp_waypoint(acc.seq, AboveLanding(Head(points), landing),
                                           0, 1, None)),
                   Tail(points), landing)

(* The exception export_mission_mp raises, if any: it reads landing_site   *)
(* and poi first, indexes the safety points by direction and takes         *)
(* drone_traj[0].                                                          *)
MpBuildErr(t, n_repeat, safety_waypoints) ==
    IF IsNone(t.landing_site) \/ IsNone(t.poi) THEN ErrNoneLat
    ELSE IF ~IsNone(safety_waypoints) /\ The(safety_waypoints) \notin DOMAIN SafetyWaypoints
         THEN ErrKey
    ELSE IF IsNone(t.geodetic) THEN ErrNoneTolist
    ELSE IF ArcItems(t, n_repeat) = 0 THEN ErrListIndex
    ELSE OK

(* The text export_mission_mp builds. *)
MpWaypoints(t, move_speed, scan_speed, n_repeat, safety_waypoints, add_rth) ==
    LET landing == The(t.landing_site)
        start == [waypoints |-> <<mp_header>>, seq |-> 0]
        home == MpEmit(start, mp_waypoint(start.seq, landing, 0, 1, Some(0)))
        poi == MpEmit(home, mp_roi(home.seq, AboveLanding(The(t.poi), landing)))
        move == MpEmit(poi, mp_speed(poi.seq, move_speed))
        safety == IF IsNone(safety_waypoints) THEN move
                  ELSE MpSafetyLoop(move, SafetyWaypoints[The(safety_waypoints)])
        drone_traj == Repeated(Mirrored(The(t.geodetic)), n_repeat)
        first == MpEmit(safety, mp_waypoint(safety.seq, AboveLanding(drone_traj[1], landing),
                                            0, 1, None))
        scan == MpEmit(first, mp_speed(first.seq, scan_speed))
        arc == MpArcLoop(scan, Tail(drone_traj), landing)
        last == IF add_rth THEN MpEmit(arc, mp_rth(arc.seq)) ELSE arc
    IN  last.waypoints

(* export_mission_mp: the text returned, the file written, if any, and     *)
(* whether the missing safety points were warned about.                    *)
export_mission_mp(t, move_speed, scan_speed, n_repeat, savepath, safety_waypoints, add_rth) ==
    LET e == MpBuildErr(t, n_repeat, safety_waypoints)
        waypoints == MpWaypoints(t, move_speed, scan_speed, n_repeat, safety_waypoints, add_rth)
        w == ~IsNone(t.landing_site) /\ ~IsNone(t.poi) /\ IsNone(safety_waypoints)
    IN  IF e # OK THEN [err |-> e, val |-> None, written |-> <<>>, warned |-> w]
        ELSE [err |-> OK, val |-> Some(waypoints),
              written |-> IF IsNone(savepath) THEN <<>>
                          ELSE <<[path |-> The(savepath), rows |-> waypoints]>>,
              warned |-> w]

(***************************************************************************)
(* Mission export: the QGroundControl plan (utils/qgc_utils.py).  An item  *)
(* is the dict of the plan format; params holds the first four parameters  *)
(* and the position that stands for the last three (latitude, longitude,   *)
(* altitude).                                                              *)
(***************************************************************************)
qgc_mission_item(doJumpId, command, frame, params) ==
    [doJumpId |-> doJumpId, command |-> command, frame |-> frame, params |-> params,
     autoContinue |-> TRUE, type |-> "SimpleItem", AMSLAltAboveTerrain |-> None]

(* item["Altitude"] = alt; item["AltitudeMode"] = mav["altmode"] *)
WithAltitude(item, position, altmode) ==
    [k \in DOMAIN item \cup {"Altitude", "AltitudeMode"} |->
        IF k = "Altitude" THEN [alt |-> position.alt, off |-> position.off]
        ELSE IF k = "AltitudeMode" THEN altmode
        ELSE item[k]]

qgc_waypoint(doJumpId, position) ==
    LET mav == MAVLINK_COMMANDS.waypoint
    IN  WithAltitude(qgc_mission_item(doJumpId, mav.cmd, mav.frame,
                                      [p |-> <<0, 0, 0, 0>>, position |-> position]),
                     position, mav.altmode)

qgc_poi(doJumpId, position) ==
    LET mav == MAVLINK_COMMANDS.roi
    IN  WithAltitude(qgc_mission_item(doJumpId, mav.cmd, mav.frame,
                                      [p |-> <<0, 0, 0, 0>>, position |-> position]),
                     position, mav.altmode)

qgc_speed(doJumpId, speed_value) ==
    LET mav == MAVLINK_COMMANDS.speed
    IN  qgc_mission_item(doJumpId, mav.cmd, mav.frame,
                         [p |-> <<1, speed_value, -1, 0>>, position |-> Geodetic(0, 0, 0)])

qgc_rth(doJumpId) ==
    LET mav == MAVLINK_COMMANDS.rth
    IN  qgc_mission_item(doJumpId, mav.cmd, mav.frame,
                         [p |-> <<0, 0, 0, 0>>, position |-> Geodetic(0, 0, 0)])

append_waypoint(waypoints, position) ==
    Append(waypoints, qgc_waypoint(Len(waypoints) + 1, position))

append_poi(waypoints, position) ==
    Append(waypoints, qgc_poi(Len(waypoints) + 1, position))

append_speed(waypoints, speed_value) ==
    Append(waypoints, qgc_speed(Len(waypoints) + 1, speed_value))

append_rth(waypoints) ==
    Append(waypoints, qgc_rth(Len(waypoints) + 1))

(* The loops of export_mission_qgc over the safety points (triples) and    *)
(* over the points of the arc after the first.                             *)
RECURSIVE QgcSafetyLoop(_, _)
QgcSafetyLoop(waypoints, safety_points) ==
    IF Len(safety_points) = 0 THEN waypoints
    ELSE LET safety_point == Head(safety_points)
         IN  QgcSafetyLoop(append_waypoint(waypoints,
                                           Geodetic(safety_point[1], safety_point[2],
                                                    safety_point[3])),
                           Tail(safety_points))

RECURSIVE QgcArcLoop(_, _, _)
QgcArcLoop(waypoints, points, landing) ==
    IF Len(points) = 0 THEN waypoints
    ELSE QgcArcLoop(append_waypoint(waypoints, AboveLanding(Head(points), landing)),
                    Tail(points), landing)

(* The exception export_mission_qgc raises, if any: it reads poi, then     *)
(* landing_site, indexes the safety points by direction and takes          *)
(* drone_traj[0].                                                          *)
QgcBuildErr(t, n_repeat, safety_waypoints) ==
    IF IsNone(t.poi) THEN ErrNoneLat
    ELSE IF IsNone(t.landing_site) THEN ErrNoneAlt
    ELSE IF ~IsNone(safety_waypoints) /\ The(safety_waypoints) \notin DOMAIN SafetyWaypoints
         THEN ErrKey
    ELSE IF IsNone(t.geodetic) THEN ErrNoneTolist
    ELSE IF ArcItems(t, n_repeat) = 0 THEN ErrListIndex
    ELSE OK

(* The items of the plan. *)
QgcWaypoints(t, move_speed, scan_speed, n_repeat, safety_waypoints, add_rth) ==
    LET landing == The(t.landing_site)
        poi == append_poi(<<>>, AboveLanding(The(t.poi), landing))
        move == append_speed(poi, move_speed)
        safety == IF IsNone(safety_waypoints) THEN move
                  ELSE QgcSafetyLoop(move, SafetyWaypoints[The(safety_waypoints)])
        drone_traj == Repeated(Mirrored(The(t.geodetic)), n_repeat)
        first == append_waypoint(safety, AboveLanding(drone_traj[1], landing))
        scan == append_speed(first, scan_speed)
        arc == QgcArcLoop(scan, Tail(drone_traj), landing)
    IN  IF add_rth THEN append_rth(arc) ELSE arc

(* coords/site_geofence.json, "fences", and the fence of a plan without.   *)
SiteFences == [circles |-> <<>>, polygons |-> <<"site">>, version |-> 2]
NoFences == [circles |-> <<>>, polygons |-> <<>>, version |-> 2]

(* export_mission_qgc: the plan returned, the file written, if any, and    *)
(* whether the missing safety points were warned about.                    *)
export_mission_qgc(t, move_speed, scan_speed, n_repeat, savepath, safety_waypoints, fence, add_rth) ==
    LET e == QgcBuildErr(t, n_repeat, safety_waypoints)
        w == ~IsNone(t.landing_site) /\ ~IsNone(t.poi) /\ IsNone(safety_waypoints)
        mission_plan ==
            [fileType |-> "Plan",
             geoFence |-> IF fence THEN SiteFences ELSE NoFences,
             groundStation |-> "QGroundControl",
             mission |-> [cruiseSpeed |-> 0, firmwareType |-> 12,
                          items |-> QgcWaypoints(t, move_speed, scan_speed, n_repeat,
                                                 safety_waypoints, add_rth),
                          plannedHomePosition |-> The(t.landing_site),
                          vehicleType |-> 2, version |-> 2],
             rallyPoints |-> [points |-> <<>>, version |-> 2],
             version |-> 1]
    IN  IF e # OK THEN [err |-> e, val |-> None, written |-> <<>>, warned |-> w]
        ELSE [err |-> OK, val |-> Some(mission_plan),
              written |-> IF IsNone(savepath) THEN <<>>
                          ELSE <<[path |-> The(savepath), rows |-> mission_plan]>>,
              warned |-> w]

(***************************************************************************)
(* Inputs of the arc generators.  Angles are given in degrees.  The        *)
(* nominal-pointing arc is run on the inputs for which the AER from the    *)
(* POI to the arc center is exact in degrees and integer metres.           *)
(***************************************************************************)
Pois == {ENU(0, 0, 0), ENU(2, 0, 0), ENU(0, 0, 2)}
SlantRanges == {-1, 0, 2}
Azimuths == {Deg(0), Deg(90), Deg(135)}
Elevations == {Deg(-45), Deg(0), Deg(45), Deg(80), Deg(90)}
Sweeps == {Deg(0), Deg(20), Deg(40)}
PointCounts == (-1)..MaxN

InDegrees(aer) == DOMAIN aer = {"az", "el", "r"}

(***************************************************************************)
(* Inputs of the observation calls.  An (N, 3) array is a sequence of      *)
(* rows; frame is what the caller means the rows to be, (lat, lon, alt) or *)
(* (e, n, u): the array itself does not carry it.  Unanchored is a         *)
(* Telescope object that belongs to no site.                               *)
(***************************************************************************)
Batches == {<< <<0, 2, 0>> >>, << <<2, 0, 0>>, <<0, 2, 2>> >>, << <<92, 0, 0>> >>}

PointArgs ==
    {[kind |-> "ndarray", frame |-> f, rows |-> b] : f \in {"geodetic", "enu"}, b \in Batches}
    \cup {[kind |-> "Geodetic", geodetic |-> Geodetic(0, 2, 0)], [kind |-> "list"]}

Unanchored == Telescope(UnknownName, Geodetic(0, 0, 0), 0)

TelescopeObjects(tels) == {tels[i] : i \in 1..Len(tels)} \cup {Unanchored}

TelescopeArgs(tels) ==
    {[kind |-> "str", name |-> n] : n \in {TelNames[1], TelNames[2], UnknownName}}
    \cup {[kind |-> "Telescope", tel |-> t] : t \in TelescopeObjects(tels)}
    \cup {[kind |-> "ENU", enu |-> ENU(0, 0, 2)],
          [kind |-> "Geodetic", geodetic |-> Geodetic(2, 0, 0)],
          [kind |-> "int"]}

TargetArgs ==
    {[kind |-> "ENU", enu |-> ENU(0, 2, 0)],
     [kind |-> "ndarray", rows |-> << <<2, 0, 0>>, <<0, 2, 2>> >>],
     [kind |-> "list"]}

(* Inputs of the conversions called on the site directly. *)
GeoArgs ==
    {[kind |-> "ndarray", rows |-> b] : b \in Batches}
    \cup {[kind |-> "Geodetic", geodetic |-> Geodetic(0, 2, 0)],
          [kind |-> "ndarray_flat"], [kind |-> "ndarray_scalar"], [kind |-> "list"]}

EnuArgs ==
    {[kind |-> "ENU", enu |-> ENU(0, 2, 0)],
     [kind |-> "ndarray", rows |-> << <<2, 0, 0>>, <<0, 2, 2>> >>],
     [kind |-> "ndarray_flat"], [kind |-> "ndarray_scalar"], [kind |-> "list"]}

(***************************************************************************)
(* Actions of the site's life.                                             *)
(***************************************************************************)
Init ==
    /\ pc = "start"
    /\ telescopes = <<>>
    /\ origin = None
    /\ landing_site = None
    /\ planner = FALSE
    /\ traj = None
    /\ files = <<>>
    /\ call = [op |-> "none"]
    /\ err = OK
    /\ warned = FALSE
    /\ ret = None

Load(cfg) ==
    /\ pc = "start"
    /\ pc' = "site"
    /\ telescopes' = SiteTelescopes(cfg)
    /\ landing_site' = cfg.landing_site
    /\ origin' = cfg.origin
    /\ call' = [op |-> "Site"]
    /\ err' = OK
    /\ warned' = FALSE
    /\ ret' = None
    /\ UNCHANGED <<planner, traj, files>>

(* call.before keeps the telescopes as they were when set_origin was       *)
(* called.                                                                 *)
SetOrigin(geodetic) ==
    /\ pc = "site"
    /\ LET r == set_origin(telescopes, origin, geodetic)
       IN  /\ telescopes' = r.telescopes
           /\ origin' = r.origin
           /\ err' = r.err
           /\ warned' = r.warned
    /\ call' = [op |-> "set_origin", geodetic |-> geodetic, before |-> telescopes]
    /\ ret' = None
    /\ UNCHANGED <<pc, landing_site, planner, traj, files>>

(* TrajectoryPlanner.__init__(site) *)
NewPlanner ==
    /\ pc = "site"
    /\ call' = [op |-> "TrajectoryPlanner"]
    /\ ret' = None
    /\ IF IsNone(origin)
       THEN LET r == set_origin(telescopes, origin, None)
            IN  /\ telescopes' = r.telescopes
                /\ origin' = r.origin
                /\ err' = r.err
                /\ warned' = r.warned
                /\ planner' = (planner \/ r.err = OK)
       ELSE /\ err' = OK
            /\ warned' = FALSE
            /\ planner' = TRUE
            /\ UNCHANGED <<telescopes, origin>>
    /\ UNCHANGED <<pc, landing_site, traj, files>>

(* The observation calls read the site and leave it as it is, so whatever  *)
(* may be called after one may be called before it: a run of the model     *)
(* ends with the observation call whose outcome is examined.               *)
ObservePoints(points, telescope) ==
    /\ pc = "site"
    /\ LET r == observe_points(telescopes, origin, points, telescope)
       IN  err' = r.err /\ ret' = r.val
    /\ call' = [op |-> "observe_points", points |-> points, telescope |-> telescope]
    /\ warned' = FALSE
    /\ pc' = "observed"
    /\ UNCHANGED <<telescopes, origin, landing_site, planner, traj, files>>

TelescopeToTargetAer(telescope, target) ==
    /\ pc = "site"
    /\ planner
    /\ LET r == telescope_to_target_aer(telescope, target)
       IN  err' = r.err /\ ret' = r.val
    /\ call' = [op |-> "telescope_to_target_aer", telescope |-> telescope, target |-> target]
    /\ warned' = FALSE
    /\ pc' = "observed"
    /\ UNCHANGED <<telescopes, origin, landing_site, planner, traj, files>>

GeodeticToEnu(geo) ==
    /\ pc = "site"
    /\ LET r == geodetic_to_enu(origin, geo)
       IN  err' = r.err /\ ret' = r.val
    /\ call' = [op |-> "geodetic_to_enu", arg |-> geo]
    /\ warned' = FALSE
    /\ pc' = "observed"
    /\ UNCHANGED <<telescopes, origin, landing_site, planner, traj, files>>

EnuToGeodetic(enu) ==
    /\ pc = "site"
    /\ LET r == enu_to_geodetic(origin, enu)
       IN  err' = r.err /\ ret' = r.val
    /\ call' = [op |-> "enu_to_geodetic", arg |-> enu]
    /\ warned' = FALSE
    /\ pc' = "observed"
    /\ UNCHANGED <<telescopes, origin, landing_site, planner, traj, files>>

(* The arc generators read the site and leave it as it is; a run of the    *)
(* model ends with the trajectory (or the exception) of one call.          *)
OldArc(poi_enu, slant_range, az_center, el_center, el_range, num_steps_el) ==
    /\ pc = "site"
    /\ planner
    /\ LET r == old_arc_trajectory_202404(origin, landing_site, poi_enu, slant_range,
                                          az_center, el_center, el_range, num_steps_el)
       IN  err' = r.err /\ ret' = r.val
    /\ call' = [op |-> "old_arc_trajectory_202404", poi |-> poi_enu,
                slant_range |-> slant_range, az_center |-> az_center,
                el_center |-> el_center, el_range |-> el_range,
                num_steps_el |-> num_steps_el]
    /\ warned' = FALSE
    /\ pc' = "planned"
    /\ UNCHANGED <<telescopes, origin, landing_site, planner, traj, files>>

NewArc(nominal_poi, nominal_az, nominal_el, nominal_srange, poi, delta_el, num_steps_el) ==
    /\ pc = "site"
    /\ planner
    /\ nominal_srange >= 0 =>
          InDegrees(CenterAer(nominal_poi, nominal_az, nominal_el, nominal_srange, poi))
    /\ LET r == new_arc_trajectory_202412(origin, landing_site, nominal_poi, nominal_az,
                                          nominal_el, nominal_srange, poi, delta_el,
                                          num_steps_el)
       IN  err' = r.err /\ ret' = r.val
    /\ call' = [op |-> "new_arc_trajectory_202412", nominal_poi |-> nominal_poi,
                nominal_az |-> nominal_az, nominal_el |-> nominal_el,
                nominal_srange |-> nominal_srange, poi |-> poi, el_range |-> delta_el,
                num_steps_el |-> num_steps_el]
    /\ warned' = FALSE
    /\ pc' = "planned"
    /\ UNCHANGED <<telescopes, origin, landing_site, planner, traj, files>>

Next ==
    \/ \E cfg \in Configs : Load(cfg)
    \/ \E g \in {None} \cup {Some(o) : o \in OriginArgs} : SetOrigin(g)
    \/ NewPlanner
    \/ \E p \in PointArgs, t \in TelescopeArgs(telescopes) : ObservePoints(p, t)
    \/ \E i \in 1..Len(telescopes), x \in TargetArgs : TelescopeToTargetAer(telescopes[i], x)
    \/ \E g \in GeoArgs : GeodeticToEnu(g)
    \/ \E e \in EnuArgs : EnuToGeodetic(e)

Spec == Init /\ [][Next]_vars

(***************************************************************************)
(* The arc generators on their own: a site of one telescope, loaded,       *)
(* anchored by set_origin(g) and wrapped in a TrajectoryPlanner.           *)
(***************************************************************************)
ArcSiteConfig ==
    [telescopes |-> <<[name |-> TelNames[1], lat |-> 0, lon |-> 0, alt |-> 0,
                      focalplane_height |-> 2]>>,
     origin |-> None, landing_site |-> None]

ArcInit ==
    /\ pc = "site"
    /\ \E g \in OriginArgs :
          LET r == set_origin(SiteTelescopes(ArcSiteConfig), None, Some(g))
          IN  telescopes = r.telescopes /\ origin = r.origin
    /\ landing_site \in LandingSites
    /\ planner = TRUE
    /\ traj = None
    /\ files = <<>>
    /\ call = [op |-> "TrajectoryPlanner"]
    /\ err = OK
    /\ warned = FALSE
    /\ ret = None

ArcNext ==
    \/ /\ pc = "site"
       /\ \E p \in Pois, r \in SlantRanges, az \in Azimuths, el \in Elevations,
             w \in Sweeps, num \in PointCounts : OldArc(p, r, az, el, w, num)
    \/ /\ pc = "site"
       /\ \E np \in Pois, az \in Azimuths, el \in Elevations, r \in SlantRanges,
             p \in Pois, w \in Sweeps, num \in PointCounts :
                NewArc(np, az, el, r, p, w, num)

ArcSpec == ArcInit /\ [][ArcNext]_vars

(***************************************************************************)
(* Trajectories on their own: a site of two telescopes in one of the       *)
(* states the site's life reaches (loaded without origin; loaded with a    *)
(* configured origin and wrapped in a planner; anchored by set_origin and  *)
(* wrapped in a planner), and a DroneTrajectory the caller constructs from *)
(* its own points.                                                         *)
(***************************************************************************)
TrajSiteConfig ==
    [telescopes |-> <<[name |-> TelNames[1], lat |-> 0, lon |-> 0, alt |-> 0,
                      focalplane_height |-> 0],
                     [name |-> TelNames[2], lat |-> 2, lon |-> 0, alt |-> 0,
                      focalplane_height |-> 2]>>,
     origin |-> None, landing_site |-> None]

TrajPoints == {<<>>, <<ENU(2, 0, 0)>>, <<ENU(2, 0, 0), ENU(0, 2, 2)>>}
ArcCenters == {None, Some(ENU(0, 0, 0)), Some(ENU(0, 2, 0))}

(* DroneTrajectory(enu=..., yaw=..., pitch=..., npoints=..., arccenter=..., *)
(* plot_boresight=...) as a caller constructs it.                          *)
SampleTrajectory(enu, arccenter, plot_boresight) ==
    [DroneTrajectory(enu, [i \in 1..Len(enu) |-> 0], [i \in 1..Len(enu) |-> 0],
                     Len(enu), arccenter, None, None)
        EXCEPT !.plot_boresight = plot_boresight]

SampleTrajectories ==
    {SampleTrajectory(e, c, b) : e \in TrajPoints, c \in ArcCenters, b \in BOOLEAN}

SiteArgs ==
    {[kind |-> "Site"], [kind |-> "str"]}
    \cup {[kind |-> "Geodetic", geodetic |-> g] : g \in OriginArgs}

ViewNames == {"LAT", "LON", "ALT"}

(* The arguments of plot_trajectories: trajectories of two points, alone,  *)
(* in a list, in a dict or in a tuple; telescope names or none.            *)
PlotSamples ==
    {SampleTrajectory(<<ENU(2, 0, 0), ENU(0, 2, 2)>>, c, b) : c \in ArcCenters, b \in BOOLEAN}

TrajectoryArgs ==
    {[kind |-> "DroneTrajectory", traj |-> t] : t \in PlotSamples}
    \cup {[kind |-> "list", items |-> <<a, b>>] : a, b \in PlotSamples}
    \cup {[kind |-> "dict", items |-> <<[name |-> "nominal", traj |-> a],
                                       [name |-> "shifted", traj |-> b]>>] :
             a, b \in PlotSamples}
    \cup {[kind |-> "list", items |-> <<>>], [kind |-> "tuple"]}

TelescopeNameArgs ==
    {None, Some(<<TelNames[2], TelNames[1]>>), Some(<<TelNames[1]>>),
     Some(<<TelNames[1], UnknownName>>)}

TrajInit ==
    /\ pc = "site"
    /\ \E g \in {None} \cup {Some(o) : o \in OriginArgs}, anchored \in BOOLEAN :
          LET r == set_origin(SiteTelescopes(TrajSiteConfig), None, g)
          IN  IF anchored
              THEN telescopes = r.telescopes /\ origin = r.origin
              ELSE telescopes = SiteTelescopes(TrajSiteConfig) /\ origin = g
    /\ landing_site = None
    /\ planner = ~IsNone(origin)
    /\ traj = None
    /\ files = <<>>
    /\ call = [op |-> "Site"]
    /\ err = OK
    /\ warned = FALSE
    /\ ret = None

MakeTrajectory(t) ==
    /\ pc = "site"
    /\ pc' = "traj"
    /\ traj' = Some(t)
    /\ call' = [op |-> "DroneTrajectory"]
    /\ err' = OK
    /\ warned' = FALSE
    /\ ret' = None
    /\ UNCHANGED <<telescopes, origin, landing_site, planner, files>>

ComputeGeodetic(site) ==
    /\ pc = "traj"
    /\ LET r == DroneTrajectory_compute_geodetic(The(traj), origin, site)
       IN  traj' = Some(r.traj) /\ err' = r.err
    /\ call' = [op |-> "compute_geodetic", site |-> site]
    /\ warned' = FALSE
    /\ ret' = None
    /\ UNCHANGED <<pc, telescopes, origin, landing_site, planner, files>>

(* Reading a view leaves the trajectory as it is: a run ends with it. *)
ReadView(name) ==
    /\ pc = "traj"
    /\ LET r == DroneTrajectory_view(The(traj), name)
       IN  err' = r.err /\ ret' = r.val
    /\ call' = [op |-> "view", name |-> name]
    /\ warned' = FALSE
    /\ pc' = "observed"
    /\ UNCHANGED <<telescopes, origin, landing_site, planner, traj, files>>

ComputeBoresight(telescope) ==
    /\ pc = "traj"
    /\ planner
    /\ LET r == compute_boresight(telescope, The(traj))
       IN  err' = r.err /\ ret' = r.val
    /\ call' = [op |-> "compute_boresight", telescope |-> telescope]
    /\ warned' = FALSE
    /\ pc' = "observed"
    /\ UNCHANGED <<telescopes, origin, landing_site, planner, traj, files>>

PlotTrajectories(trajectories, names, boresight_table) ==
    /\ pc = "site"
    /\ planner
    /\ LET r == plot_trajectories(telescopes, trajectories, names, boresight_table)
       IN  err' = r.err /\ ret' = r.val /\ warned' = r.warned
    /\ call' = [op |-> "plot_trajectories", trajectories |-> trajectories,
                telescopes |-> names, boresight_table |-> boresight_table]
    /\ pc' = "observed"
    /\ UNCHANGED <<telescopes, origin, landing_site, planner, traj, files>>

TrajNext ==
    \/ /\ pc = "site"
       /\ \E t \in SampleTrajectories : MakeTrajectory(t)
    \/ \E a \in SiteArgs : ComputeGeodetic(a)
    \/ \E v \in ViewNames : ReadView(v)
    \/ \E i \in 1..Len(telescopes) : ComputeBoresight(telescopes[i])
    \/ /\ pc = "site"
       /\ \E t \in TrajectoryArgs, n \in TelescopeNameArgs, b \in BOOLEAN :
             PlotTrajectories(t, n, b)

TrajSpec == TrajInit /\ [][TrajNext]_vars

(***************************************************************************)
(* Export: a trajectory returned by the fixed-AER arc on an anchored site  *)
(* with or without landing site, exported once.  The Litchi export is run  *)
(* up to the repeat counts that reach its limit of 100 waypoints, the      *)
(* other two up to MaxMissionRepeat.                                       *)
(***************************************************************************)
RepeatCounts == (-1)..MaxRepeat
MissionRepeatCounts == (-1)..MaxMissionRepeat
SavePaths == {None, Some("plan.csv")}
SafetyArgs == {None, Some("south"), Some("north"), Some("up")}

ExportInit ==
    /\ pc = "traj"
    /\ LET r == set_origin(SiteTelescopes(ArcSiteConfig), None, Some(Geodetic(0, 0, 0)))
       IN  telescopes = r.telescopes /\ origin = r.origin
    /\ landing_site \in LandingSites
    /\ planner = TRUE
    /\ \E num \in 0..MaxN :
          traj = old_arc_trajectory_202404(origin, landing_site, ENU(0, 0, 0), 2, Deg(0),
                                           Deg(45), Deg(20), num).val
    /\ files = <<>>
    /\ call = [op |-> "old_arc_trajectory_202404"]
    /\ err = OK
    /\ warned = FALSE
    /\ ret = None

ExportLitchi(move_speed, scan_speed, n_repeat, savepath, safety_waypoints) ==
    /\ pc = "traj"
    /\ LET r == export_mission_litchi(The(traj), move_speed, scan_speed, n_repeat, savepath,
                                      safety_waypoints)
       IN  err' = r.err /\ ret' = r.val /\ files' = files \o r.written
    /\ call' = [op |-> "export_mission_litchi", n_repeat |-> n_repeat,
                savepath |-> savepath, safety_waypoints |-> safety_waypoints]
    /\ warned' = FALSE
    /\ pc' = "exported"
    /\ UNCHANGED <<telescopes, origin, landing_site, planner, traj>>

ExportMp(move_speed, scan_speed, n_repeat, savepath, safety_waypoints, add_rth) ==
    /\ pc = "traj"
    /\ LET r == export_mission_mp(The(traj), move_speed, scan_speed, n_repeat, savepath,
                                  safety_waypoints, add_rth)
       IN  err' = r.err /\ ret' = r.val /\ files' = files \o r.written /\ warned' = r.warned
    /\ call' = [op |-> "export_mission_mp", n_repeat |-> n_repeat, savepath |-> savepath,
                safety_waypoints |-> safety_waypoints, add_rth |-> add_rth]
    /\ pc' = "exported"
    /\ UNCHANGED <<telescopes, origin, landing_site, planner, traj>>

ExportQgc(move_speed, scan_speed, n_repeat, savepath, safety_waypoints, fence, add_rth) ==
    /\ pc = "traj"
    /\ LET r == export_mission_qgc(The(traj), move_speed, scan_speed, n_repeat, savepath,
                                   safety_waypoints, fence, add_rth)
       IN  err' = r.err /\ ret' = r.val /\ files' = files \o r.written /\ warned' = r.warned
    /\ call' = [op |-> "export_mission_qgc", n_repeat |-> n_repeat, savepath |-> savepath,
                safety_waypoints |-> safety_waypoints, fence |-> fence, add_rth |-> add_rth]
    /\ pc' = "exported"
    /\ UNCHANGED <<telescopes, origin, landing_site, planner, traj>>

(* mp.waypoint called on its own, at the first point of the trajectory. *)
FrameArgs == {None, Some(0), Some(2), Some(3), Some(10)}

MpWaypoint(seq, frame) ==
    /\ pc = "traj"
    /\ ~IsNone(The(traj).geodetic)
    /\ Len(The(The(traj).geodetic)) > 0
    /\ ret' = Some(<<mp_waypoint(seq, The(The(traj).geodetic)[1], 0, 1, frame)>>)
    /\ err' = OK
    /\ call' = [op |-> "mp.waypoint", seq |-> seq, frame |-> frame]
    /\ warned' = FALSE
    /\ pc' = "exported"
    /\ UNCHANGED <<telescopes, origin, landing_site, planner, traj, files>>

ExportNext ==
    \/ /\ pc = "traj"
       /\ \E n \in RepeatCounts, path \in SavePaths, s \in SafetyArgs :
             ExportLitchi(5, 2, n, path, s)
    \/ /\ pc = "traj"
       /\ \E n \in MissionRepeatCounts, path \in SavePaths, s \in SafetyArgs, rth \in BOOLEAN :
             ExportMp(5, 2, n, path, s, rth)
    \/ /\ pc = "traj"
       /\ \E n \in MissionRepeatCounts, path \in SavePaths, s \in SafetyArgs,
             fence, rth \in BOOLEAN :
             ExportQgc(5, 2, n, path, s, fence, rth)
    \/ /\ pc = "traj"
       /\ \E seq \in 0..1, f \in FrameArgs : MpWaypoint(seq, f)

ExportSpec == ExportInit /\ [][ExportNext]_vars

(***************************************************************************)
(* Conversions there and back: a site loaded with a configured origin,     *)
(* geodetic_to_enu of a point or an (N, 3) array, then enu_to_geodetic of  *)
(* what the first call returned.                                           *)
(***************************************************************************)
ConvLons == {-178, 0, 2, 190}
ConvOrigins == {Geodetic(la, lo, al) : la \in Lats, lo \in {0, 190}, al \in Heights}
ConvPoints == {Geodetic(la, lo, al) : la \in Lats, lo \in ConvLons, al \in Heights}

GeoRow(g) == <<g.lat, g.lon, g.alt>>

ConvArgs ==
    {[kind |-> "Geodetic", geodetic |-> g] : g \in ConvPoints}
    \cup {[kind |-> "ndarray", rows |-> <<GeoRow(g)>>] : g \in ConvPoints}
    \cup {[kind |-> "ndarray", rows |-> <<GeoRow(g), <<2, 2, 2>> >>] : g \in ConvPoints}
    \cup {[kind |-> "ndarray", rows |-> <<>>]}

(* What geodetic_to_enu returned, as the argument of enu_to_geodetic: the  *)
(* ENU object, or the (N, 3) array of the columns e, n, u.                 *)
EnuArgOf(geo, val) ==
    IF geo.kind = "Geodetic"
    THEN [kind |-> "ENU", enu |-> val]
    ELSE [kind |-> "ndarray", rows |-> [i \in 1..Len(val) |-> <<val[i].e, val[i].n, val[i].u>>]]

ConvInit ==
    /\ pc = "site"
    /\ telescopes = SiteTelescopes(ArcSiteConfig)
    /\ origin \in {Some(o) : o \in ConvOrigins}
    /\ landing_site = None
    /\ planner = FALSE
    /\ traj = None
    /\ files = <<>>
    /\ call = [op |-> "Site"]
    /\ err = OK
    /\ warned = FALSE
    /\ ret = None

ConvertToEnu(geo) ==
    /\ pc = "site"
    /\ LET r == geodetic_to_enu(origin, geo)
       IN  err' = r.err /\ ret' = r.val
    /\ call' = [op |-> "geodetic_to_enu", arg |-> geo]
    /\ warned' = FALSE
    /\ pc' = "converted"
    /\ UNCHANGED <<telescopes, origin, landing_site, planner, traj, files>>

(* call.arg stays the point the first call was given. *)
ConvertBack ==
    /\ pc = "converted"
    /\ err = OK
    /\ LET r == enu_to_geodetic(origin, EnuArgOf(call.arg, The(ret)))
       IN  err' = r.err /\ ret' = r.val
    /\ call' = [op |-> "enu_to_geodetic", arg |-> call.arg, enu |-> The(ret)]
    /\ warned' = FALSE
    /\ pc' = "observed"
    /\ UNCHANGED <<telescopes, origin, landing_site, planner, traj, files>>

ConvNext ==
    \/ /\ pc = "site"
       /\ \E g \in ConvArgs : ConvertToEnu(g)
    \/ ConvertBack

ConvSpec == ConvInit /\ [][ConvNext]_vars

(***************************************************************************)
(* Properties of the Site and of the observation calls.                    *)
(***************************************************************************)
(* The errors by which the code reports a telescope that has no enu. *)
NotAnchoredErrors == {ErrTelEnuNotComputed, ErrTelEnuNotDefined}

(* C1: whenever the site's origin is set, every telescope's enu is         *)
(* populated and is the telescope's position (altitude plus focal-plane    *)
(* height) converted relative to the current origin.                       *)
C1_EnuConsistentWithOrigin ==
    (pc # "start" /\ ~IsNone(origin)) =>
        \A i \in 1..Len(telescopes) :
            telescopes[i].enu = Some(TelescopeEnu(telescopes[i], The(origin)))

(* C2: set_origin is atomic: a set_origin call that fails leaves the       *)
(* site's origin and every telescope's enu as they were before the call.   *)
C2_SetOriginAtomic ==
    [][(call'.op = "set_origin" /\ err' # OK) =>
          (origin' = origin /\ telescopes' = telescopes)]_vars

(* C7: observe_points resolves the telescope reference before anything     *)
(* else: an unknown name raises the telescope-not-found error, a known     *)
(* name or a Telescope object without enu raises the not-anchored error,   *)
(* whatever the points are; nothing is returned and the site is unchanged. *)
C7_ObserveResolvesTelescopeFirst ==
    [][(call'.op = "observe_points") =>
          LET t == call'.telescope
              unknown == t.kind = "str" /\ ~HasTelescope(telescopes, t.name)
              unanchoredName == /\ t.kind = "str"
                                /\ HasTelescope(telescopes, t.name)
                                /\ IsNone(TelescopeNamed(telescopes, t.name).enu)
              unanchoredObject == t.kind = "Telescope" /\ IsNone(t.tel.enu)
          IN  /\ unknown => err' = ErrTelNotFound
              /\ unanchoredName => err' = ErrTelEnuNotComputed
              /\ unanchoredObject => err' = ErrTelEnuNotDefined
              /\ (unknown \/ unanchoredName \/ unanchoredObject) =>
                    /\ ret' = None
                    /\ telescopes' = telescopes
                    /\ origin' = origin
                    /\ landing_site' = landing_site]_vars

(* Witness of C7: a known but unanchored telescope name is reported even   *)
(* though the points argument is of a type the conversion rejects.         *)
C7_Witness ==
    /\ call.op = "observe_points"
    /\ call.telescope.kind = "str"
    /\ HasTelescope(telescopes, call.telescope.name)
    /\ call.points.kind = "list"
    /\ err = ErrTelEnuNotComputed
    /\ ~IsNone(origin)

(* C8: observe_points takes the points as a Geodetic batch, converted into *)
(* the site frame, or as an ENU batch, already in the site frame; the rows *)
(* returned are enu_to_aer of (point in site frame - telescope position),  *)
(* one per point, in order.                                                *)
SiteFramePoint(points, i, o) ==
    IF points.frame = "enu"
    THEN ENU(points.rows[i][1], points.rows[i][2], points.rows[i][3])
    ELSE RowEnu(points.rows[i], o)

C8_ObserveAcceptsBothFrames ==
    (/\ call.op = "observe_points"
     /\ call.points.kind = "ndarray"
     /\ ~IsNone(origin)
     /\ ValidLat(The(origin).lat)
     /\ ResolveTelescope(telescopes, origin, call.telescope).err = OK
     /\ call.points.frame = "geodetic" =>
            \A i \in 1..Len(call.points.rows) : ValidLat(call.points.rows[i][1]))
    => /\ err = OK
       /\ ret = Some([i \in 1..Len(call.points.rows) |->
                enu2aer(EnuSub(SiteFramePoint(call.points, i, The(origin)),
                               The(ResolveTelescope(telescopes, origin, call.telescope).val)))])

(* C9: telescope_to_target_aer fails with the telescope-not-anchored error *)
(* whenever the telescope has no enu, also for a site loaded with an       *)
(* origin and wrapped in a planner without any set_origin call.            *)
C9_TargetAerNotAnchored ==
    (/\ call.op = "telescope_to_target_aer"
     /\ call.target.kind \in {"ENU", "ndarray"}
     /\ IsNone(call.telescope.enu)) =>
        err \in NotAnchoredErrors

(* C10 as claimed: set_origin on a site without telescopes raises the      *)
(* no-telescopes error, with or without an origin argument, and leaves the *)
(* origin as it was.                                                       *)
C10_Original ==
    [][(call'.op = "set_origin" /\ Len(telescopes) = 0) =>
          (err' = ErrNoTelescopes /\ origin' = origin)]_vars

(* C10 amended: on a site without telescopes, set_origin with the origin   *)
(* omitted raises the no-telescopes error and leaves the origin as it was; *)
(* with an explicit origin it returns and the origin is the given one.     *)
C10_SetOriginNoTelescopes ==
    [][(call'.op = "set_origin" /\ Len(telescopes) = 0) =>
          IF IsNone(call'.geodetic)
          THEN err' = ErrNoTelescopes /\ origin' = origin /\ telescopes' = telescopes
          ELSE err' = OK /\ origin' = call'.geodetic]_vars

(* Witness of C10: the implicit call failed on an empty site whose origin  *)
(* came from the configuration and is still there.                         *)
C10_Witness ==
    /\ call.op = "set_origin"
    /\ IsNone(call.geodetic)
    /\ Len(telescopes) = 0
    /\ err = ErrNoTelescopes
    /\ ~IsNone(origin)

(***************************************************************************)
(* Properties of the arc generators.  The center of the sweep is the       *)
(* (az_center, el_center, slant_range) given to the fixed-AER arc and the  *)
(* AER from the POI to the arc center derived by the nominal-pointing arc. *)
(***************************************************************************)
IsArcCall == call.op \in {"old_arc_trajectory_202404", "new_arc_trajectory_202412"}
ArcReturned == IsArcCall /\ err = OK /\ ~IsNone(ret)

SweepCenter ==
    IF call.op = "old_arc_trajectory_202404"
    THEN [az |-> call.az_center, el |-> call.el_center, r |-> call.slant_range]
    ELSE CenterAer(call.nominal_poi, call.nominal_az, call.nominal_el,
                   call.nominal_srange, call.poi)

(* The elevation of the i-th point of the returned trajectory, seen from   *)
(* the POI of the call.                                                    *)
ElevationFromPoi(i) == enu2aer(EnuSub(The(ret).enu[i], call.poi)).el

(* C3: a trajectory returned by either generator has as many yaw values,   *)
(* pitch values, ENU points and geodetic rows as npoints, which is the     *)
(* num_steps_el of the call.                                               *)
C3_ArcLengthsAgree ==
    ArcReturned =>
        LET t == The(ret)
        IN  /\ t.npoints = call.num_steps_el
            /\ Len(t.enu) = t.npoints
            /\ Len(t.yaw) = t.npoints
            /\ Len(t.pitch) = t.npoints
            /\ ~IsNone(t.geodetic)
            /\ Len(The(t.geodetic)) = t.npoints

C3_Witness ==
    /\ ArcReturned
    /\ call.op = "new_arc_trajectory_202412"
    /\ call.num_steps_el = 3
    /\ Len(The(ret).enu) = 3
    /\ Len(The(The(ret).geodetic)) = 3

(* C4: with a point count of 1 either generator returns exactly one point, *)
(* placed at the center elevation of the sweep.                            *)
C4_SinglePointAtCenter ==
    (ArcReturned /\ call.num_steps_el = 1) =>
        /\ Len(The(ret).enu) = 1
        /\ The(ret).enu[1] =
              EnuAdd(aer2enu(SweepCenter.az, SweepCenter.el, SweepCenter.r), call.poi)

(* C5: a point count below 1 makes either generator fail, and no           *)
(* trajectory is returned.                                                 *)
C5_RejectsNonPositiveCount ==
    (IsArcCall /\ call.num_steps_el < 1) => (err # OK /\ IsNone(ret))

(* The elevations of the points seen from the POI are spaced linearly over *)
(* the sweep, both ends included.                                          *)
LinearElevations ==
    LET num == call.num_steps_el
    IN  /\ ElevationFromPoi(1) = SweepCenter.el - call.el_range \div 2
        /\ ElevationFromPoi(num) = SweepCenter.el + call.el_range \div 2
        /\ \A i \in 1..(num - 1) :
              (num - 1) * (ElevationFromPoi(i + 1) - ElevationFromPoi(i)) = call.el_range
        /\ ElevationFromPoi(1) + ElevationFromPoi(num) = 2 * SweepCenter.el

SweepWithinHorizon ==
    /\ SweepCenter.r > 0
    /\ SweepCenter.el - call.el_range \div 2 >= -Deg(90)
    /\ SweepCenter.el + call.el_range \div 2 <= Deg(90)

(* C6 as claimed: for N >= 2 the elevations of the generated points, seen  *)
(* from the POI, are linearly spaced from center - width/2 to              *)
(* center + width/2 in steps of width/(N-1).  (Stated for a range above    *)
(* zero: at range zero every point is the POI itself.)                     *)
C6_Original ==
    (ArcReturned /\ call.num_steps_el >= 2 /\ SweepCenter.r > 0) => LinearElevations

(* C6 amended: the same, for a range above zero and a sweep that stays     *)
(* within [-90, 90] degrees of elevation.                                  *)
C6_LinearElevationsWithinHorizon ==
    (ArcReturned /\ call.num_steps_el >= 2 /\ SweepWithinHorizon) => LinearElevations

C6_Witness ==
    /\ ArcReturned
    /\ call.op = "new_arc_trajectory_202412"
    /\ call.nominal_poi # call.poi
    /\ call.num_steps_el = 3
    /\ call.el_range = Deg(40)
    /\ SweepWithinHorizon
    /\ ElevationFromPoi(1) = -Deg(20)
    /\ ElevationFromPoi(3) = Deg(20)

(***************************************************************************)
(* Properties of the implicit origin and of re-anchoring.                  *)
(***************************************************************************)
(* A set_origin call just made, and whether it was made without an origin: *)
(* directly, or by TrajectoryPlanner.__init__ on a site whose origin was    *)
(* unset.                                                                  *)
ImplicitSetOrigin ==
    \/ call'.op = "set_origin" /\ IsNone(call'.geodetic)
    \/ call'.op = "TrajectoryPlanner" /\ IsNone(origin)

ExplicitSetOrigin == call'.op = "set_origin" /\ ~IsNone(call'.geodetic)

(* g is the mean of the telescopes' ECEF positions, focal-plane height     *)
(* included, converted back to geodetic.                                   *)
IsBarycenter(g, tels) ==
    LET k == Len(tels)
        p == geodetic2ecef(g.lat, g.lon, g.alt)
    IN  /\ k * p.x = SumSeq([i \in 1..k |-> tels[i].geodetic.lon])
        /\ k * p.y = SumSeq([i \in 1..k |-> tels[i].geodetic.lat])
        /\ k * p.z = SumSeq([i \in 1..k |->
                                tels[i].geodetic.alt + tels[i].focalplane_height])

(* C11: set_origin with the origin omitted (directly or by constructing a  *)
(* TrajectoryPlanner on a site without origin), when compute_barycenter    *)
(* returns, makes the barycenter the origin, emits the implicit-origin     *)
(* warning and recomputes every telescope's enu from that origin; with an  *)
(* explicit origin no warning is emitted and the origin is the given one.  *)
C11_ImplicitOriginIsBarycenter ==
    [][/\ (ImplicitSetOrigin /\ BarycenterErr(telescopes) = OK) =>
              /\ err' = OK
              /\ warned'
              /\ ~IsNone(origin')
              /\ IsBarycenter(The(origin'), telescopes)
              /\ \A i \in 1..Len(telescopes) :
                    telescopes'[i].enu = Some(TelescopeEnu(telescopes[i], The(origin')))
       /\ ExplicitSetOrigin => (~warned' /\ origin' = call'.geodetic)]_vars

(* Witness of C11: a planner built on a site of two telescopes without     *)
(* origin anchored it at their barycenter, focal-plane heights included.   *)
C11_Witness ==
    /\ call.op = "TrajectoryPlanner"
    /\ warned
    /\ err = OK
    /\ Len(telescopes) = 2
    /\ telescopes[1].geodetic.lat # telescopes[2].geodetic.lat
    /\ telescopes[1].focalplane_height # telescopes[2].focalplane_height
    /\ origin = Some(Geodetic(1, 0, 1))
    /\ telescopes[1].enu # telescopes[2].enu

(* The telescopes of a freshly loaded site: no enu computed yet. *)
FreshlyLoaded(tels) == [i \in 1..Len(tels) |-> [tels[i] EXCEPT !.enu = None]]

(* C12: after a set_origin(g) that returns, the telescopes are what a      *)
(* single set_origin(g) makes of the freshly loaded site, whatever origins *)
(* were set before: every enu depends only on g and on the telescope's own *)
(* geodetic position and focal-plane height.                               *)
C12_SetOriginForgetsEarlierOrigins ==
    [][(ExplicitSetOrigin /\ err' = OK) =>
          /\ telescopes' = set_origin(FreshlyLoaded(telescopes), None, call'.geodetic).telescopes
          /\ \A i \in 1..Len(telescopes) :
                telescopes'[i].enu = Some(TelescopeEnu(FreshlyLoaded(telescopes)[i],
                                                       The(call'.geodetic)))]_vars

(* Witness of C12: set_origin(g) returned on a site whose telescopes were  *)
(* anchored at another origin before the call.                             *)
C12_Witness ==
    /\ call.op = "set_origin"
    /\ ~IsNone(call.geodetic)
    /\ err = OK
    /\ Len(telescopes) = 2
    /\ \A i \in 1..2 : ~IsNone(call.before[i].enu) /\ call.before[i].enu # telescopes[i].enu
    /\ telescopes = set_origin(FreshlyLoaded(telescopes), None, origin).telescopes

(***************************************************************************)
(* Properties of the conversions of the site.                              *)
(***************************************************************************)
(* C13: geodetic_to_enu and enu_to_geodetic fail with the origin-not-set   *)
(* error whenever the site's origin is unset, whatever the input is (an    *)
(* object, a batch array, an array of another shape, a value of a wrong    *)
(* type), return nothing then, and never change the origin or a telescope. *)
C13_ConversionsNeedOrigin ==
    [][(call'.op \in {"geodetic_to_enu", "enu_to_geodetic"}) =>
          /\ origin' = origin
          /\ telescopes' = telescopes
          /\ IsNone(origin) =>
                /\ ret' = None
                /\ err' = IF call'.op = "geodetic_to_enu" THEN ErrOriginToEnu
                                                           ELSE ErrOriginToGeodetic]_vars

(* Witness of C13: a wrongly typed input on a site without origin is       *)
(* answered with the origin-not-set error, not with the type error.        *)
C13_Witness ==
    /\ call.op = "geodetic_to_enu"
    /\ call.arg.kind = "list"
    /\ IsNone(origin)
    /\ Len(telescopes) > 0
    /\ err = ErrOriginToEnu
    /\ ret = None

(***************************************************************************)
(* Properties of the trajectories the arc generators return.               *)
(***************************************************************************)
(* C14: a trajectory returned by either generator has geodetic populated   *)
(* from its enu through the site's origin, curveradius equal to the        *)
(* resolved slant range (the slant_range argument of the fixed-AER arc,    *)
(* the range from the actual POI to the arc center for the nominal-        *)
(* pointing arc) and landing_site equal to the site's landing_site.        *)
C14_ArcCarriesSiteData ==
    ArcReturned =>
        LET t == The(ret)
        IN  /\ t.geodetic = Some([i \in 1..Len(t.enu) |-> enu2geodetic(t.enu[i], The(origin))])
            /\ t.curveradius = Some(SweepCenter.r)
            /\ (call.op = "old_arc_trajectory_202404") => t.curveradius = Some(call.slant_range)
            /\ t.landing_site = landing_site

(* Witness of C14: a nominal-pointing arc whose range from the actual POI  *)
(* differs from the nominal range, generated on a site with a landing      *)
(* site.                                                                   *)
C14_Witness ==
    /\ ArcReturned
    /\ call.op = "new_arc_trajectory_202412"
    /\ call.nominal_srange = 2
    /\ The(ret).curveradius = Some(4)
    /\ The(ret).landing_site = Some(Geodetic(0, 2, 0))
    /\ call.num_steps_el = 3
    /\ Len(The(The(ret).geodetic)) = 3

(***************************************************************************)
(* Properties of a DroneTrajectory.                                        *)
(***************************************************************************)
(* C15: geodetic is absent until compute_geodetic succeeds.  Reading LAT,  *)
(* LON or ALT while it is absent raises the not-computed error and returns *)
(* nothing; compute_geodetic given a Site without origin, or a value that  *)
(* is neither a Site nor a Geodetic, raises and leaves the trajectory as   *)
(* it was; a compute_geodetic that returns changes geodetic and nothing    *)
(* else of the trajectory.                                                 *)
C15_GeodeticOnlyByComputeGeodetic ==
    [][(pc = "traj") =>
          /\ (call'.op = "view" /\ IsNone(The(traj).geodetic)) =>
                (err' = ErrGeodeticNotComputed /\ ret' = None)
          /\ (call'.op = "compute_geodetic") =>
                /\ (call'.site.kind = "Site" /\ IsNone(origin)) =>
                      (err' = ErrTrajOrigin /\ traj' = traj)
                /\ (call'.site.kind \notin {"Site", "Geodetic"}) =>
                      (err' = ErrTrajSiteType /\ traj' = traj)
                /\ (err' # OK) => traj' = traj
                /\ (err' = OK) =>
                      /\ ~IsNone(The(traj').geodetic)
                      /\ The(traj') = [The(traj) EXCEPT !.geodetic = The(traj').geodetic]
          /\ (IsNone(The(traj).geodetic) /\ ~IsNone(The(traj').geodetic)) =>
                (call'.op = "compute_geodetic" /\ err' = OK)]_vars

(* Witness of C15: compute_geodetic(site) raised on a site without origin  *)
(* and the trajectory of two points still has no geodetic.                 *)
C15_Witness ==
    /\ pc = "traj"
    /\ call.op = "compute_geodetic"
    /\ call.site.kind = "Site"
    /\ IsNone(origin)
    /\ err = ErrTrajOrigin
    /\ Len(The(traj).enu) = 2
    /\ IsNone(The(traj).geodetic)

(* C16: for the nominal-pointing arc with an odd point count N the middle  *)
(* point of the trajectory is the stored arccenter, which is nominal_poi   *)
(* offset by aer2enu(nominal_az, nominal_el, nominal_srange), whatever the *)
(* actual POI is.                                                          *)
C16_MiddlePointIsArcCenter ==
    (ArcReturned /\ call.op = "new_arc_trajectory_202412" /\ call.num_steps_el % 2 = 1) =>
        LET t == The(ret)
        IN  /\ t.arccenter = Some(EnuAdd(aer2enu(call.nominal_az, call.nominal_el,
                                                 call.nominal_srange), call.nominal_poi))
            /\ t.enu[(call.num_steps_el + 1) \div 2] = The(t.arccenter)

(* C17: for every point of a trajectory returned by either generator the   *)
(* stored yaw and pitch are the azimuth and elevation of enu2aer applied   *)
(* to (POI - point), the POI being poi_enu of the fixed-AER arc and the    *)
(* actual POI of the nominal-pointing arc; so the pitch is the opposite of *)
(* the elevation under which the POI sees the point.                       *)
C17_YawPitchFacePoi ==
    ArcReturned =>
        LET t == The(ret)
        IN  \A i \in 1..Len(t.enu) :
               /\ t.yaw[i] = enu2aer(EnuSub(call.poi, t.enu[i])).az
               /\ t.pitch[i] = enu2aer(EnuSub(call.poi, t.enu[i])).el
               /\ t.pitch[i] = -ElevationFromPoi(i)

(* Witness of C17: a nominal-pointing arc east of an actual POI other than *)
(* the nominal one; the drone looks west, down at the top of the sweep and *)
(* up at its bottom.                                                       *)
C17_Witness ==
    /\ ArcReturned
    /\ call.op = "new_arc_trajectory_202412"
    /\ call.nominal_poi # call.poi
    /\ call.num_steps_el = 3
    /\ The(ret).yaw = <<Deg(270), Deg(270), Deg(270)>>
    /\ The(ret).pitch = <<Deg(20), 0, -Deg(20)>>

(***************************************************************************)
(* Properties of the boresight.                                            *)
(***************************************************************************)
(* C18: compute_boresight on an anchored telescope returns the AER from    *)
(* the telescope to trajectory.arccenter whenever arccenter is present,    *)
(* an arccenter at ENU(0, 0, 0) included, and the AER from the telescope   *)
(* to the arithmetic mean of the trajectory's ENU points when arccenter is *)
(* absent (and there are points to average).                               *)
C18_BoresightTarget ==
    (call.op = "compute_boresight" /\ ~IsNone(call.telescope.enu)) =>
        LET t == The(traj)
            tel == The(call.telescope.enu)
        IN  /\ err = OK
            /\ ~IsNone(t.arccenter) => ret = Some(enu2aer(EnuSub(The(t.arccenter), tel)))
            /\ (IsNone(t.arccenter) /\ Len(t.enu) > 0) =>
                  \E m \in {MeanEnu(t.enu)} :
                     /\ Len(t.enu) * m.e = SumSeq([i \in 1..Len(t.enu) |-> t.enu[i].e])
                     /\ Len(t.enu) * m.n = SumSeq([i \in 1..Len(t.enu) |-> t.enu[i].n])
                     /\ Len(t.enu) * m.u = SumSeq([i \in 1..Len(t.enu) |-> t.enu[i].u])
                     /\ ret = Some(enu2aer(EnuSub(m, tel)))

(* Witness of C18: the boresight of a trajectory whose arccenter is the    *)
(* site origin ENU(0, 0, 0), seen from a telescope north of and above the  *)
(* origin, points at the origin and not at the mean of the two points.     *)
C18_Witness ==
    /\ call.op = "compute_boresight"
    /\ call.telescope.enu = Some(ENU(0, 2, 2))
    /\ The(traj).arccenter = Some(ENU(0, 0, 0))
    /\ Len(The(traj).enu) = 2
    /\ err = OK
    /\ ret = Some(enu2aer(ENU(0, -2, -2)))
    /\ ret # Some(enu2aer(EnuSub(MeanEnu(The(traj).enu), ENU(0, 2, 2))))

(***************************************************************************)
(* Properties of the batch summary.                                        *)
(***************************************************************************)
(* A plot_trajectories call that asked for the boresight table and         *)
(* returned; the rows of the table drawn (none if no table was drawn).     *)
TableRequested == call.op = "plot_trajectories" /\ call.boresight_table /\ err = OK
TableRows == IF IsNone(ret) THEN <<>> ELSE The(ret)

CallItems == TrajDict(call.trajectories)
CallNames == PlotTelescopes(telescopes, call.telescopes)
CallPairs == {<<j, i>> : j \in 1..Len(CallItems), i \in 1..Len(CallNames)}

(* The table holds exactly one row for every pair of the set: telescope    *)
(* name, trajectory name, azimuth and elevation of the boresight.          *)
TableHolds(pairs) ==
    /\ Len(TableRows) = Cardinality(pairs)
    /\ \A q \in pairs :
          \E k \in 1..Len(TableRows) :
             LET b == The(compute_boresight(TelescopeNamed(telescopes, CallNames[q[2]]),
                                            CallItems[q[1]].traj).val)
             IN  TableRows[k] = [telescope |-> CallNames[q[2]],
                                 trajectory |-> CallItems[q[1]].name,
                                 az |-> AzCell(b), el |-> ElCell(b)]

ArcThereAndBack == LET n == The(traj).npoints IN IF n <= 2 THEN n ELSE 2 * n - 2
PlanItems ==
    (IF IsNone(call.safety_waypoints) THEN 0
     ELSE Len(SafetyWaypoints[The(call.safety_waypoints)]))
    + ArcThereAndBack * (IF call.n_repeat < 0 THEN 0 ELSE call.n_repeat)

(* The plan can be built: the direction is known and the trajectory has    *)
(* what a waypoint is made of.                                             *)
PlanBuilt ==
    /\ call.op = "export_mission_litchi"
    /\ LitchiBuildErr(The(traj), call.n_repeat, call.safety_waypoints) = OK

(* C20: export_mission_litchi never returns or writes a table of 100 or    *)
(* more rows: a plan of 100 or more waypoints (safety waypoints plus the   *)
(* repeated arc waypoints) raises the length error and no file is written; *)
(* a plan of fewer than 100 waypoints is returned, one row per waypoint.   *)
C20_LitchiBelowHundred ==
    /\ (call.op = "export_mission_litchi") =>
          /\ ~IsNone(ret) => Len(The(ret)) < 100
          /\ \A i \in 1..Len(files) : Len(files[i].rows) < 100
          /\ err # OK => (IsNone(ret) /\ files = <<>>)
    /\ (PlanBuilt /\ PlanItems >= 100) => err = ErrLitchiLength
    /\ (PlanBuilt /\ PlanItems < 100) =>
          /\ err = OK
          /\ ret = Some(LitchiWaypoints(The(traj), 5, 2, call.n_repeat, call.safety_waypoints))
          /\ Len(The(ret)) = PlanItems
          /\ ~IsNone(call.savepath) => files = <<[path |-> The(call.savepath), rows |-> The(ret)]>>

(* Witness of C20: a plan of exactly 100 waypoints, with a file asked for, *)
(* is refused and nothing is written.                                      *)
C20_Witness ==
    /\ PlanBuilt
    /\ PlanItems = 100
    /\ ~IsNone(call.savepath)
    /\ err = ErrLitchiLength
    /\ IsNone(ret)
    /\ files = <<>>

(***************************************************************************)
(* Properties of the conversions there and back.                           *)
(***************************************************************************)
RoundTripDone == pc = "observed" /\ call.op = "enu_to_geodetic" /\ "enu" \in DOMAIN call

(* The points of the argument of the first call, as (lat, lon, alt) rows. *)
RoundTripRows ==
    IF call.arg.kind = "Geodetic" THEN <<GeoRow(call.arg.geodetic)>> ELSE call.arg.rows

(* The result is the argument again: the same Geodetic, or the array of    *)
(* the same rows.                                                          *)
Reproduced ==
    /\ err = OK
    /\ IF call.arg.kind = "Geodetic"
       THEN ret = Some(call.arg.geodetic)
       ELSE ret = Some([i \in 1..Len(call.arg.rows) |->
                          Geodetic(call.arg.rows[i][1], call.arg.rows[i][2],
                                   call.arg.rows[i][3])])

(* Latitude within [-90, 90] and longitude strictly within 180 degrees of  *)
(* Greenwich.                                                              *)
OnChart(row) == ValidLat(row[1]) /\ row[2] > -180 /\ row[2] < 180

NominalIsActual ==
    /\ pc = "planned"
    /\ call.op = "new_arc_trajectory_202412"
    /\ call.nominal_poi = call.poi
    /\ call.nominal_srange > 0
    /\ call.nominal_el > -Deg(90)
    /\ call.nominal_el < Deg(90)

(* The fixed-AER arc of the same call: the POI, the nominal range, azimuth *)
(* and elevation, the same sweep and point count.                          *)
OldArcOfCall ==
    old_arc_trajectory_202404(origin, landing_site, call.poi, call.nominal_srange,
                              call.nominal_az, call.nominal_el, call.el_range,
                              call.num_steps_el)

MpWaypointCalled == pc = "exported" /\ call.op = "mp.waypoint"
MpExported == pc = "exported" /\ call.op = "export_mission_mp" /\ err = OK

(* C23: an item built by mp.waypoint carries the frame the caller          *)
(* supplied, 0 included, and the default frame 3 only when none was        *)
(* supplied; the home item export_mission_mp emits first, with frame=0,    *)
(* has frame 0 in the text.                                                *)
C23_WaypointCarriesFrame ==
    /\ MpWaypointCalled =>
          The(ret)[1].frame = (IF IsNone(call.frame) THEN 3 ELSE The(call.frame))
    /\ MpExported => The(ret)[2].frame = 0

QgcExported == pc = "exported" /\ call.op = "export_mission_qgc" /\ err = OK

(* C24: in every mission export_mission_mp returns, the first line is the  *)
(* header and the items after it carry seq 0, 1, 2, ... in emission order; *)
(* in every plan export_mission_qgc returns, the items carry doJumpId 1,   *)
(* 2, 3, ... in emission order; so the numbers have no gaps and no         *)
(* duplicates, with or without safety waypoints and return-to-home, for    *)
(* every repeat count and point count.                                     *)
C24_ItemsNumberedConsecutively ==
    /\ MpExported =>
          /\ The(ret)[1] = mp_header
          /\ \A i \in 2..Len(The(ret)) :
                The(ret)[i] # mp_header /\ The(ret)[i].seq = i - 2
    /\ QgcExported =>
          \A i \in 1..Len(The(ret).mission.items) : The(ret).mission.items[i].doJumpId = i

(* The missions of the same call: two safety waypoints, an arc of three    *)
(* points flown twice and the return to home, in both formats.             *)
C24_Witness ==
    /\ MpExported \/ QgcExported
    /\ call.safety_waypoints = Some("south")
    /\ call.n_repeat = 2
    /\ call.add_rth
    /\ The(traj).npoints = 3
    /\ LET items == IF MpExported THEN Tail(The(ret)) ELSE The(ret).mission.items
       IN  /\ Len(items) = (IF MpExported THEN 15 ELSE 14)
           /\ items[Len(items)].command = 20
           /\ IF MpExported THEN items[Len(items)].seq = 14
                             ELSE items[Len(items)].doJumpId = 14

(***************************************************************************)
(* The arc in the exported missions.                                       *)
(***************************************************************************)
(* An export that returned a mission, for a repeat count that is a count. *)
ArcExported ==
    /\ pc = "exported"
    /\ call.op \in {"export_mission_litchi", "export_mission_mp", "export_mission_qgc"}
    /\ err = OK
    /\ call.n_repeat >= 0

SafetyCount ==
    IF IsNone(call.safety_waypoints) THEN 0
    ELSE Len(SafetyWaypoints[The(call.safety_waypoints)])

(* The positions of the arc waypoints of the mission, in emission order:   *)
(* the rows of the Litchi table after the safety points; the waypoint      *)
(* items (command 16) after the home, POI, speed and safety items of the   *)
(* Mission Planner text, or after the POI, speed and safety items of the   *)
(* QGroundControl plan.                                                    *)
IsWaypointItem(item) == item.command = MAVLINK_COMMANDS.waypoint.cmd

EmittedArc ==
    CASE call.op = "export_mission_litchi" ->
            [k \in 1..(Len(The(ret)) - SafetyCount) |-> The(ret)[SafetyCount + k].position]
      [] call.op = "export_mission_mp" ->
            LET items == Tail(The(ret))
                arc == SelectSeq(SubSeq(items, 4 + SafetyCount, Len(items)), IsWaypointItem)
            IN  [k \in 1..Len(arc) |-> arc[k].position]
      [] call.op = "export_mission_qgc" ->
            LET items == The(ret).mission.items
                arc == SelectSeq(SubSeq(items, 3 + SafetyCount, Len(items)), IsWaypointItem)
            IN  [k \in 1..Len(arc) |-> arc[k].params.position]

(* There and back on n points: 0, 1, ..., n-1, n-2, ..., 1, and again.     *)
ArcPeriod(n) == n + (IF n > 2 THEN n - 2 ELSE 0)
ArcIndex(k, n) ==
    LET j == k % ArcPeriod(n)
    IN  IF j < n THEN j ELSE 2 * (n - 1) - j

(* Point i (from 0) of the trajectory as the exporters write it: at its    *)
(* height above the landing site.                                          *)
TrajPosition(i) ==
    AboveLanding(The(The(traj).geodetic)[i + 1], The(The(traj).landing_site))

(* The index of the trajectory point written at a position. *)
TrajIndexOf(position) ==
    CHOOSE i \in 0..(The(traj).npoints - 1) : TrajPosition(i) = position

(* C25: in every mission an exporter returns for a trajectory of N points  *)
(* and n_repeat (>= 0) repetitions, the arc waypoints are the points of    *)
(* index 0, 1, ..., N-1, N-2, ..., 1, n_repeat times over: they number     *)
(* n_repeat * (N + max(N - 2, 0)), and for N >= 2 any two consecutive ones *)
(* (also from one repetition to the next) are neighbouring points of the   *)
(* trajectory.                                                             *)
C25_ArcThereAndBack ==
    ArcExported =>
        LET N == The(traj).npoints
            arc == EmittedArc
        IN  /\ Len(arc) = call.n_repeat * ArcPeriod(N)
            /\ \A k \in 1..Len(arc) : arc[k] = TrajPosition(ArcIndex(k - 1, N))
            /\ N >= 2 =>
                  \A k \in 1..(Len(arc) - 1) :
                      Abs(TrajIndexOf(arc[k]) - TrajIndexOf(arc[k + 1])) = 1

(* An arc of four points flown twice, after the safety waypoints: twelve   *)
(* arc waypoints, the sixth and seventh being points 1 and 0.              *)
C25_Witness ==
    /\ ArcExported
    /\ call.n_repeat = 2
    /\ call.safety_waypoints = Some("south")
    /\ The(traj).npoints = 4
    /\ Len(EmittedArc) = 12
    /\ TrajIndexOf(EmittedArc[4]) = 3
    /\ TrajIndexOf(EmittedArc[6]) = 1
    /\ TrajIndexOf(EmittedArc[7]) = 0
    /\ TrajIndexOf(EmittedArc[8]) = 1
====
